---- MODULE Spec2Model ----
(***************************************************************************)
(* Model of the LAO workbook import: the date/frequency utilities of       *)
(* utils/laoSchedule and the reconciler executeImport of                   *)
(* LaoConditionsManagement, run against the storage collaborators.         *)
(*                                                                         *)
(* Representation.                                                         *)
(*   - a JavaScript string that the code inspects character by character   *)
(*     (names, license numbers) is a sequence of one-character strings;    *)
(*     the empty string is << >>;                                          *)
(*   - an ISO date string "YYYY-MM-DD" is the number YYYYMMDD: the code    *)
(*     compares such strings with > and localeCompare, which on zero       *)
(*     padded dates is the order of these numbers; a missing date          *)
(*     (null, undefined or '') is 0;                                       *)
(*     where the code takes such a string apart (parseISODate) or builds   *)
(*     it (toISODate) it is a sequence of characters like any other;       *)
(*   - a Date is the day it falls on in local time, counted from           *)
(*     1970-01-01, and getTime() is that count; null is NullDate;          *)
(*   - a number that may have a fraction (monthsToAdd, intervalMonths) is  *)
(*     held in halves: Months(n) is the whole number n;                    *)
(*   - an identifier is a positive number, the empty identifier '' is 0;   *)
(*   - a timestamp (new Date().toISOString()) is the reading of a logical  *)
(*     clock;                                                              *)
(*   - an object is a function from field names to values, so that the     *)
(*     spread {...a, ...b} is Spread(a, b) and an optional field may be    *)
(*     absent from the domain.                                             *)
(***************************************************************************)
EXTENDS Integers, Sequences, FiniteSets, TLC

(***************************************************************************)
(* Text utilities (utils/laoSchedule)                                      *)
(***************************************************************************)

\* Characters matched by \s in the strings of the model.
Whitespace == {" ", "\n"}

\* A combining mark of the range U+0300..U+036F (acute accent, cedilla,
\* tilde), written "'".
CombiningMarks == {"'"}

\* String.prototype.normalize('NFD') on one character: a precomposed
\* accented letter ("e^" is U+00E9, "E^" is U+00C9, "c^" and "C^" are the
\* c with cedilla, "a^" and "A^" the a with tilde) decomposes into its base
\* letter and the combining mark.
NFDChar(ch) ==
    CASE ch = "e^" -> <<"e", "'">>
      [] ch = "E^" -> <<"E", "'">>
      [] ch = "c^" -> <<"c", "'">>
      [] ch = "C^" -> <<"C", "'">>
      [] ch = "a^" -> <<"a", "'">>
      [] ch = "A^" -> <<"A", "'">>
      [] OTHER -> <<ch>>

RECURSIVE NFD(_)
NFD(s) == IF s = <<>> THEN <<>> ELSE NFDChar(Head(s)) \o NFD(Tail(s))

\* replace(/[\u0300-\u036f]/g, '')
StripMarks(s) == SelectSeq(s, LAMBDA ch : ch \notin CombiningMarks)

UpperCase ==
    <<"A", "B", "C", "D", "E", "F", "G", "H", "I", "J", "K", "L", "M", "N",
      "O", "P", "Q", "R", "S", "T", "U", "V", "W", "X", "Y", "Z">>
LowerCase ==
    <<"a", "b", "c", "d", "e", "f", "g", "h", "i", "j", "k", "l", "m", "n",
      "o", "p", "q", "r", "s", "t", "u", "v", "w", "x", "y", "z">>

LowerChar(ch) ==
    IF ch = "E^" THEN "e^"
    ELSE IF ch = "C^" THEN "c^"
    ELSE IF ch = "A^" THEN "a^"
    ELSE IF \E k \in 1..Len(UpperCase) : UpperCase[k] = ch
         THEN LowerCase[CHOOSE k \in 1..Len(UpperCase) : UpperCase[k] = ch]
         ELSE ch

\* String.prototype.toLowerCase
ToLowerCase(s) == [k \in 1..Len(s) |-> LowerChar(s[k])]

RECURSIVE TrimStart(_)
TrimStart(s) ==
    IF s # <<>> /\ Head(s) \in Whitespace THEN TrimStart(Tail(s)) ELSE s

RECURSIVE TrimEnd(_)
TrimEnd(s) ==
    IF s # <<>> /\ s[Len(s)] \in Whitespace
    THEN TrimEnd(SubSeq(s, 1, Len(s) - 1))
    ELSE s

\* String.prototype.trim
Trim(s) == TrimEnd(TrimStart(s))

\* replace(/\s+/g, ' '): every maximal run of whitespace becomes one space.
RECURSIVE CollapseWhitespace(_)
CollapseWhitespace(s) ==
    IF s = <<>> THEN <<>>
    ELSE IF Head(s) \in Whitespace
         THEN <<" ">> \o CollapseWhitespace(TrimStart(s))
         ELSE <<Head(s)>> \o CollapseWhitespace(Tail(s))

normalizeText(value) ==
    CollapseWhitespace(Trim(ToLowerCase(StripMarks(NFD(value)))))

\* `${normalizeText(laoNumber)}::${normalizeText(empreendimento)}`
getImportKey(laoNumber, empreendimento) ==
    normalizeText(laoNumber) \o <<":", ":">> \o normalizeText(empreendimento)

(***************************************************************************)
(* Numbers, strings and dates of the language                              *)
(***************************************************************************)

Digits == <<"0", "1", "2", "3", "4", "5", "6", "7", "8", "9">>
IsDigit(ch) == \E k \in 1..Len(Digits) : Digits[k] = ch
DigitValue(ch) == (CHOOSE k \in 1..Len(Digits) : Digits[k] = ch) - 1

\* The value of a non-empty run of decimal digits.
RECURSIVE DecimalValue(_)
DecimalValue(s) ==
    IF s = <<>> THEN 0
    ELSE 10 * DecimalValue(SubSeq(s, 1, Len(s) - 1)) + DigitValue(s[Len(s)])

NaN == [nan |-> TRUE, value |-> 0]

\* Number(string), for strings of digits, white space and characters that
\* occur in no numeric literal: white space around is dropped, the empty
\* string is 0, a run of digits is its value, anything else is NaN.
Number(str) ==
    LET t == Trim(str)
    IN  IF t = <<>> THEN [nan |-> FALSE, value |-> 0]
        ELSE IF \A k \in 1..Len(t) : IsDigit(t[k])
             THEN [nan |-> FALSE, value |-> DecimalValue(t)]
             ELSE NaN

\* String(n) for an integer n.
RECURSIVE DecimalDigits(_)
DecimalDigits(n) ==
    IF n < 10 THEN <<Digits[n + 1]>>
    ELSE DecimalDigits(n \div 10) \o <<Digits[(n % 10) + 1]>>

String(n) == IF n < 0 THEN <<"-">> \o DecimalDigits(-n) ELSE DecimalDigits(n)

\* String.prototype.padStart(targetLength, padString) for a one-character pad.
RECURSIVE PadStart(_, _, _)
PadStart(str, targetLength, pad) ==
    IF Len(str) >= targetLength THEN str
    ELSE PadStart(<<pad>> \o str, targetLength, pad)

\* String.prototype.split(separator) for a one-character separator.
RECURSIVE Split(_, _)
Split(str, separator) ==
    IF \E k \in 1..Len(str) : str[k] = separator
    THEN LET k == CHOOSE i \in 1..Len(str) :
                      str[i] = separator /\ \A j \in 1..(i - 1) : str[j] # separator
         IN  <<SubSeq(str, 1, k - 1)>> \o Split(SubSeq(str, k + 1, Len(str)), separator)
    ELSE <<str>>

\* String.prototype.includes
Includes(str, part) ==
    \E k \in 0..(Len(str) - Len(part)) : SubSeq(str, k + 1, k + Len(part)) = part

\* Whole numbers among the numbers held in halves, and the integer part
\* (ToIntegerOrInfinity) the Date constructor takes of an argument.
Months(n) == 2 * n
ToInteger(halves) == IF halves >= 0 THEN halves \div 2 ELSE -((-halves) \div 2)

Min(a, b) == IF a <= b THEN a ELSE b

DateOf(days) == [null |-> FALSE, days |-> days]
NullDate == [null |-> TRUE, days |-> 0]

\* The day number of a day of the (proleptic Gregorian) calendar and back;
\* month is 1..12.
DaysFromCivil(year, month, day) ==
    LET y == IF month <= 2 THEN year - 1 ELSE year
        era == y \div 400
        yoe == y - era * 400
        mp == (month + 9) % 12
        doy == (153 * mp + 2) \div 5 + day - 1
        doe == yoe * 365 + yoe \div 4 - yoe \div 100 + doy
    IN  era * 146097 + doe - 719468

CivilFromDays(days) ==
    LET civil(era, yoe, mp, d) ==
            [year |-> IF mp < 10 THEN yoe + era * 400 ELSE yoe + era * 400 + 1,
             month |-> IF mp < 10 THEN mp + 3 ELSE mp - 9,
             day |-> d]
        ofDayOfYear(era, yoe, doy, mp) ==
            civil(era, yoe, mp, doy - (153 * mp + 2) \div 5 + 1)
        ofYearOfEra(era, doe, yoe) ==
            ofDayOfYear(era, yoe, doe - (365 * yoe + yoe \div 4 - yoe \div 100),
                        (5 * (doe - (365 * yoe + yoe \div 4 - yoe \div 100)) + 2) \div 153)
        ofDayOfEra(era, doe) ==
            ofYearOfEra(era, doe,
                (doe - doe \div 1460 + doe \div 36524 - doe \div 146096) \div 365)
        ofEra(z, era) == ofDayOfEra(era, z - era * 146097)
    IN  ofEra(days + 719468, (days + 719468) \div 146097)

\* new Date(year, monthIndex, day) for integer arguments: a year 0..99 is
\* 1900 + year; months beyond 0..11 carry into the year and days beyond the
\* month carry into the following (or preceding) months.
NewDate(year, monthIndex, day) ==
    LET yr == IF year >= 0 /\ year <= 99 THEN 1900 + year ELSE year
        ym == yr + monthIndex \div 12
        mn == monthIndex % 12
    IN  DateOf(DaysFromCivil(ym, mn + 1, 1) + day - 1)

getFullYear(date) == CivilFromDays(date.days).year
getMonth(date) == CivilFromDays(date.days).month - 1
getDate(date) == CivilFromDays(date.days).day
getTime(date) == date.days

(***************************************************************************)
(* Date utilities (utils/laoSchedule)                                      *)
(***************************************************************************)

\* if (!value) return null; value.split('-').map(Number); ...
parseISODate(value) ==
    IF value = <<>> THEN NullDate
    ELSE LET texts == Split(value, "-")
             parts == [k \in 1..Len(texts) |-> Number(texts[k])]
         IN  IF Len(parts) # 3 \/ \E k \in 1..Len(parts) : parts[k].nan
             THEN NullDate
             ELSE NewDate(parts[1].value, parts[2].value - 1, parts[3].value)

\* `${year}-${month}-${day}` with month and day padded to two digits.
toISODate(date) ==
    LET year == getFullYear(date)
        month == PadStart(String(getMonth(date) + 1), 2, "0")
        day == PadStart(String(getDate(date)), 2, "0")
    IN  String(year) \o <<"-">> \o month \o <<"-">> \o day

\* Faulty variant: the day is not clamped to the target month.
addMonthsOverflowingDay(base, monthsToAdd) ==
    NewDate(getFullYear(base), ToInteger(Months(getMonth(base)) + monthsToAdd),
            getDate(base))

\* Faulty variant: the last day of a month goes to the last day of the
\* target month.
addMonthsKeepingMonthEnd(base, monthsToAdd) ==
    LET year == getFullYear(base)
        month == getMonth(base)
        day == getDate(base)
        targetMonthDate == NewDate(year, ToInteger(Months(month) + monthsToAdd), 1)
        nextMonth == NewDate(getFullYear(targetMonthDate),
                             getMonth(targetMonthDate) + 1, 0)
        dayToUse == IF day = getDate(NewDate(year, month + 1, 0))
                    THEN getDate(nextMonth)
                    ELSE Min(day, getDate(nextMonth))
    IN  NewDate(getFullYear(targetMonthDate), getMonth(targetMonthDate), dayToUse)

addMonthsPreserveDay(base, monthsToAdd) ==
    LET year == getFullYear(base)
        month == getMonth(base)
        day == getDate(base)
        targetMonthDate == NewDate(year, ToInteger(Months(month) + monthsToAdd), 1)
        nextMonth == NewDate(getFullYear(targetMonthDate),
                             getMonth(targetMonthDate) + 1, 0)
        dayToUse == Min(day, getDate(nextMonth))
    IN  NewDate(getFullYear(targetMonthDate), getMonth(targetMonthDate), dayToUse)

(***************************************************************************)
(* Helpers for arrays and objects                                          *)
(***************************************************************************)

\* {...a, ...b}: the fields of b, and those of a that b does not have.
Spread(a, b) == b @@ a

\* Array.prototype.find over the verdicts of its predicate on the elements,
\* in order: the 1-based index of the first match, 0 when nothing matches.
FindIndex(matches) ==
    IF \E k \in 1..Len(matches) : matches[k]
    THEN CHOOSE k \in 1..Len(matches) :
             matches[k] /\ \A j \in 1..(k - 1) : ~matches[j]
    ELSE 0

\* Faulty variant: an assignment in place of the comparison (x.id = rec.id ? rec : x)
\* replaces every element.
ReplaceEvery(arr, rec) == [k \in 1..Len(arr) |-> rec]

\* arr.map(x => x.id === rec.id ? rec : x)
ReplaceById(arr, rec) ==
    [k \in 1..Len(arr) |-> IF arr[k].id = rec.id THEN rec ELSE arr[k]]

\* Faulty variant: the shadow copy is not extended.
PushForgotten(arr, x) == arr

\* arr.push(x)
Push(arr, x) == Append(arr, x)

Range(arr) == {arr[k] : k \in 1..Len(arr)}

RECURSIVE AscendingSeq(_)
AscendingSeq(S) ==
    IF S = {} THEN <<>>
    ELSE LET m == CHOOSE x \in S : \A y \in S : x <= y
         IN  <<m>> \o AscendingSeq(S \ {m})

\* Array.from(new Set(values)).sort((a, b) => a.localeCompare(b))
uniqueSortedDates(values) == AscendingSeq(Range(values))

\* values.reduce((acc, value) => (value > acc ? value : acc), values[0])
RECURSIVE ReduceMax(_, _)
ReduceMax(values, acc) ==
    IF values = <<>> THEN acc
    ELSE ReduceMax(Tail(values), IF Head(values) > acc THEN Head(values) ELSE acc)

maxDateISO(values) ==
    IF Len(values) = 0 THEN 0 ELSE ReduceMax(values, values[1])


(***************************************************************************)
(* Bounds and input pools                                                  *)
(***************************************************************************)

\* Longest parsed item list handed to executeImport.
MaxItems == 2

\* How many collaborator calls may throw in one behaviour.
MaxFaults == 1

\* License numbers: the first two differ by case and spacing only.
L1 == <<"L", " ", "1">>
L1x == <<" ", "l", " ", " ", "1">>
L2 == <<"L", "2">>

\* Site names: the first two differ by accent, case and spacing only.
SE == <<"S", "E^">>
SEx == <<"s", "e", " ">>
TT == <<"T">>

\* Condition names: they differ by case and trailing space only.
NameM == <<"M">>
NameMx == <<"m", " ">>

\* ISO dates 2024-01-15 < 2024-02-10 < 2024-03-05, and a validity date.
ISO(year, month, day) == year * 10000 + month * 100 + day
D1 == ISO(2024, 1, 15)
D2 == ISO(2024, 2, 10)
D3 == ISO(2024, 3, 5)
DV == ISO(2025, 12, 31)

NoRecord == [id |-> 0]
Found(record) == record.id # 0

\* ParsedLaoConditionImport
ParsedCondition(name, preset, interval, inspectionDates, last) ==
    [name |-> name, frequencyPreset |-> preset, customMonthsInterval |-> interval,
     inspections |-> inspectionDates, lastInspectionDate |-> last, notes |-> ""]

\* Unsorted dates with a repetition, no lastInspectionDate.
CondA == ParsedCondition(NameM, "anual", 0, <<D2, D1, D2>>, 0)
\* Same normalized name as CondA, one date in common with it, unsorted.
CondB == ParsedCondition(NameMx, "custom", 5, <<D3, D1>>, D3)
\* No dates at all.
CondC == ParsedCondition(NameM, "mensal", 0, <<>>, 0)

\* ParsedLaoImportItem
ParsedItem(laoNumber, empreendimento, validity, conds) ==
    [laoNumber |-> laoNumber, title |-> <<>>, empreendimento |-> empreendimento,
     processNumber |-> "", fcei |-> "F-1", codam |-> "", issueDate |-> 0,
     validityDate |-> validity,
     details |-> <<[id |-> "", key |-> "k", value |-> "v", order |-> 5]>>,
     conditions |-> conds]

\* Parsed items. L1/SE and L1x/SEx have the same import key and the branch
\* "Se"; L2/TT matches no branch; the last item has no validityDate.
ItemPool ==
    {ParsedItem(L1, SE, DV, <<>>),
     ParsedItem(L1, SE, DV, <<CondB, CondA>>),
     ParsedItem(L1x, SEx, DV, <<CondB, CondA>>),
     ParsedItem(L1x, SEx, DV, <<CondC>>),
     ParsedItem(L2, TT, DV, <<>>),
     ParsedItem(L2, TT, DV, <<CondB, CondA>>),
     ParsedItem(L2, TT, 0, <<CondB, CondA>>)}

ItemListPool ==
    UNION {[1..n -> ItemPool] : n \in 0..MaxItems}

\* Branches known to the screen: "Se" is the branch of the sites SE and SEx.
BranchList == <<[id |-> 1, name |-> <<"S", "e">>]>>

\* A store that already holds the license L1x/SEx (inactive, of category SGA,
\* with an attachment), one condition of it and one inspection of that.
\* Of an attachment (part_002, lines 3-9) the id, the fileName and the
\* optional storagePath are kept; the id is written as the file name.
StoredLao ==
    [id |-> 1, laoNumber |-> L1x, title |-> <<"o">>, empreendimento |-> SEx,
     branchId |-> 0, category |-> "SGA", processNumber |-> "P-0", fcei |-> "",
     codam |-> "", issueDate |-> 0, validityDate |-> D3, details |-> <<>>,
     attachments |-> <<[id |-> "a.pdf", fileName |-> "a.pdf",
                        storagePath |-> <<"laos", <<"id", 1>>, 1, "a.pdf">>]>>,
     active |-> FALSE, createdAt |-> 1,
     updatedAt |-> 1]

\* The same record without the optional attachments field.
StoredLaoBare == [f \in DOMAIN StoredLao \ {"attachments"} |-> StoredLao[f]]

StoredCondition ==
    [id |-> 2, laoId |-> 1, name |-> NameMx, frequencyPreset |-> "custom",
     customMonthsInterval |-> 3, lastInspectionDate |-> D2, notes |-> "n",
     active |-> FALSE, createdAt |-> 1, updatedAt |-> 1]

StoredInspection ==
    [id |-> 3, laoId |-> 1, conditionId |-> 2, inspectionDate |-> D1,
     source |-> "manual", createdAt |-> 1]

\* An inspection of the same condition that was stored after the screen was
\* last rendered: the store has it, the props do not.
UnseenInspection ==
    [id |-> 4, laoId |-> 1, conditionId |-> 2, inspectionDate |-> D3,
     source |-> "manual", createdAt |-> 1]

\* The stores an import starts from: what the props show, what the store
\* holds beyond that, and whether its addInspection rejects a duplicate
\* (conditionId, inspectionDate) by itself.
StorePool ==
    {[laos |-> <<>>, conditions |-> <<>>, inspections |-> <<>>,
      unseen |-> <<>>, nextId |-> 1, rejects |-> FALSE],
     [laos |-> <<StoredLao>>, conditions |-> <<StoredCondition>>,
      inspections |-> <<StoredInspection>>, unseen |-> <<>>, nextId |-> 5,
      rejects |-> FALSE],
     [laos |-> <<StoredLao>>, conditions |-> <<StoredCondition>>,
      inspections |-> <<StoredInspection>>, unseen |-> <<UnseenInspection>>,
      nextId |-> 5, rejects |-> TRUE],
     [laos |-> <<StoredLaoBare>>, conditions |-> <<StoredCondition>>,
      inspections |-> <<StoredInspection>>, unseen |-> <<UnseenInspection>>,
      nextId |-> 5, rejects |-> FALSE]}

(***************************************************************************)
(* State                                                                   *)
(***************************************************************************)

VARIABLES
    branches,            \* prop: the branch list
    laos,                \* prop: snapshot of the stored LAO records
    conditions,          \* prop: snapshot of the stored conditions
    inspections,         \* prop: snapshot of the stored inspections
    laosDb,              \* the store behind onAddLao / onUpdateLao
    conditionsDb,        \* the store behind onAddCondition / onUpdateCondition
    inspectionsDb,       \* the store behind onAddInspection
    nextId,              \* next identifier the store hands out
    rejectsDuplicates,   \* whether the store's addInspection returns null on a duplicate
    clock,               \* logical clock read by new Date().toISOString()
    parsedItems,         \* argument of executeImport
    pc,                  \* position of executeImport
    summary,             \* local: summary
    currentLaos,         \* local: shadow copy of laos
    currentConditions,   \* local: shadow copy of conditions
    currentInspections,  \* local: shadow copy of inspections
    itemIndex,           \* position of "for (const item of parsedItems)"
    now,                 \* local of the item: now
    lao,                 \* local of the item: lao
    condIndex,           \* position of "for (const parsedCondition of ...)"
    conditionId,         \* local of the condition: conditionId
    sortedInspectionDates, \* local of the condition
    dateIndex,           \* position of "for (const inspectionDateValue of ...)"
    calls,               \* history: every collaborator call with its outcome
    runNo,               \* history: how many runs were started
    faults,              \* history: how many collaborator calls threw
    other,               \* the locals of a second executeImport that is suspended
    dates,               \* a call of parseISODate, toISODate, addMonthsPreserveDay
    projection,          \* a call of projectInspectionDatesForYear
    label,               \* a call of getFrequencyPresetFromLabel
    parser,              \* a call of parseWorkbook
    blocks,              \* a call of mergeDetailBlocks
    manual               \* saveInspection of the screen

vars ==
    <<branches, laos, conditions, inspections, laosDb, conditionsDb,
      inspectionsDb, nextId, rejectsDuplicates, clock, parsedItems, pc, summary, currentLaos,
      currentConditions, currentInspections, itemIndex, now, lao, condIndex,
      conditionId, sortedInspectionDates, dateIndex, calls, runNo, faults,
      other, dates, projection, label, parser, blocks, manual>>

\* What executeImport does not touch.
utilVars == <<dates, projection, label, parser, blocks>>
auxVars == <<other, manual, utilVars>>

\* A utility that is not being called.
Unused == [pc |-> "unused"]
UtilitiesUnused ==
    /\ dates = Unused
    /\ projection = Unused
    /\ label = Unused
    /\ parser = Unused
    /\ blocks = Unused

storeVars == <<laosDb, conditionsDb, inspectionsDb, nextId, rejectsDuplicates>>
propVars == <<branches, laos, conditions, inspections>>
itemLocals == <<now, lao>>
conditionLocals == <<conditionId, sortedInspectionDates>>

EmptySummary ==
    [created |-> 0, updated |-> 0, pendingBranch |-> 0, conditionCreated |-> 0,
     conditionUpdated |-> 0, inspectionsCreated |-> 0, inspectionsSkipped |-> 0,
     parserErrors |-> <<>>, importErrors |-> <<>>, pendingItems |-> <<>>]

\* The locals of an executeImport that has not started, for the list items.
IdleRun(items) ==
    [parsedItems |-> items, pc |-> "idle", summary |-> EmptySummary,
     currentLaos |-> <<>>, currentConditions |-> <<>>,
     currentInspections |-> <<>>, itemIndex |-> 0, now |-> 0, lao |-> NoRecord,
     condIndex |-> 0, conditionId |-> 0, sortedInspectionDates |-> <<>>,
     dateIndex |-> 0, calls |-> <<>>, runNo |-> 0, faults |-> 0]

\* No second import.
NoOtherRun == [pc |-> "none"]

Init ==
    /\ branches = BranchList
    /\ \E st \in StorePool :
          /\ laosDb = st.laos
          /\ conditionsDb = st.conditions
          /\ inspectionsDb = st.inspections \o st.unseen
          /\ nextId = st.nextId
          /\ rejectsDuplicates = st.rejects
          /\ laos = st.laos
          /\ conditions = st.conditions
          /\ inspections = st.inspections
    /\ clock = 2
    /\ parsedItems \in ItemListPool
    /\ pc = "idle"
    /\ summary = EmptySummary
    /\ currentLaos = <<>>
    /\ currentConditions = <<>>
    /\ currentInspections = <<>>
    /\ itemIndex = 0
    /\ now = 0
    /\ lao = NoRecord
    /\ condIndex = 0
    /\ conditionId = 0
    /\ sortedInspectionDates = <<>>
    /\ dateIndex = 0
    /\ calls = <<>>
    /\ runNo = 0
    /\ faults = 0
    /\ other = NoOtherRun
    /\ manual = Unused
    /\ UtilitiesUnused

(***************************************************************************)
(* executeImport: the pure parts                                           *)
(***************************************************************************)

\* Faulty variant: the branch name is compared without normalizeText.
findMatchingBranchRaw(empreendimento) ==
    LET k == FindIndex([n \in 1..Len(branches) |-> branches[n].name = empreendimento])
    IN  IF k = 0 THEN 0 ELSE branches[k].id

\* branches.find(branch => normalizeText(branch.name) === normalized)?.id || null
findMatchingBranch(empreendimento) ==
    LET normalized == normalizeText(empreendimento)
        k == FindIndex([n \in 1..Len(branches) |-> normalizeText(branches[n].name) = normalized])
    IN  IF k = 0 THEN 0 ELSE branches[k].id

\* Faulty variant: the stored record's key is built without normalizeText.
FindLaoByRawKey(list, key) ==
    LET k == FindIndex([n \in 1..Len(list) |->
                 list[n].laoNumber \o <<":", ":">> \o list[n].empreendimento = key])
    IN  IF k = 0 THEN NoRecord ELSE list[k]

\* currentLaos.find(current => getImportKey(current.laoNumber,
\*                                          current.empreendimento) === key)
FindLaoByKey(list, key) ==
    LET k == FindIndex([n \in 1..Len(list) |->
                 getImportKey(list[n].laoNumber, list[n].empreendimento) = key])
    IN  IF k = 0 THEN NoRecord ELSE list[k]

\* `${item.laoNumber} ${item.empreendimento}`.trim()
DefaultTitle(item) == Trim(item.laoNumber \o <<" ">> \o item.empreendimento)

\* item.details.map((detail, index) => ({...detail, id: detail.id || ..., order: index}))
ImportDetails(item, stamp) ==
    [k \in 1..Len(item.details) |->
        Spread(item.details[k],
               [id |-> IF item.details[k].id # "" THEN item.details[k].id
                       ELSE <<"detail-import", stamp, k - 1>>,
                order |-> k - 1])]

\* const laoPayload: Omit<LaoRecord, 'id'> = {...}
LaoPayload(item, branchId, existing, stamp) ==
    [laoNumber |-> item.laoNumber,
     title |-> IF item.title # <<>> THEN item.title ELSE DefaultTitle(item),
     empreendimento |-> item.empreendimento,
     branchId |-> branchId,
     category |-> "Ambiental",
     processNumber |-> item.processNumber,
     fcei |-> item.fcei,
     codam |-> item.codam,
     issueDate |-> item.issueDate,
     validityDate |-> item.validityDate,
     details |-> ImportDetails(item, stamp),
     attachments |-> IF Found(existing) /\ "attachments" \in DOMAIN existing
                     THEN existing.attachments ELSE <<>>,
     active |-> TRUE,
     createdAt |-> IF Found(existing) /\ existing.createdAt # 0
                   THEN existing.createdAt ELSE stamp,
     updatedAt |-> stamp]

\* Faulty variant: the update stamps createdAt anew.
UpdatedLaoRestamped(existing, payload) ==
    Spread(Spread(existing, payload),
           [attachments |-> IF "attachments" \in DOMAIN existing
                            THEN existing.attachments ELSE <<>>,
            createdAt |-> payload.updatedAt])

\* Faulty variant: the spreads are in the reverse order, so that the fields
\* of the stored record win over those of the payload.
UpdatedLaoStoredWins(existing, payload) ==
    Spread(Spread(payload, existing),
           [attachments |-> IF "attachments" \in DOMAIN existing
                            THEN existing.attachments ELSE <<>>,
            createdAt |-> existing.createdAt])

\* const updatedLao = {...lao, ...laoPayload, attachments: ..., createdAt: ...}
UpdatedLao(existing, payload) ==
    Spread(Spread(existing, payload),
           [attachments |-> IF "attachments" \in DOMAIN existing
                            THEN existing.attachments ELSE <<>>,
            createdAt |-> existing.createdAt])

\* Faulty variant: the stored condition's name is compared without normalizeText.
FindConditionByRawName(list, laoId, normalizedName) ==
    LET k == FindIndex([n \in 1..Len(list) |->
                 /\ list[n].laoId = laoId
                 /\ list[n].name = normalizedName])
    IN  IF k = 0 THEN NoRecord ELSE list[k]

\* currentConditions.find(condition => condition.laoId === lao.id &&
\*                        normalizeText(condition.name) === normalizedName)
FindCondition(list, laoId, normalizedName) ==
    LET k == FindIndex([n \in 1..Len(list) |->
                 /\ list[n].laoId = laoId
                 /\ normalizeText(list[n].name) = normalizedName])
    IN  IF k = 0 THEN NoRecord ELSE list[k]

\* Faulty variant: the record of a new condition carries no lastInspectionDate.
normalizeConditionWithoutLast(laoId, condition, stamp) ==
    LET base ==
            [laoId |-> laoId,
             name |-> Trim(condition.name),
             frequencyPreset |-> condition.frequencyPreset,
             lastInspectionDate |-> 0,
             notes |-> condition.notes,
             active |-> TRUE,
             createdAt |-> stamp,
             updatedAt |-> stamp]
    IN  IF condition.frequencyPreset = "custom"
        THEN Spread(base, [customMonthsInterval |-> condition.customMonthsInterval])
        ELSE base

normalizeConditionForImport(laoId, condition, stamp) ==
    LET base ==
            [laoId |-> laoId,
             name |-> Trim(condition.name),
             frequencyPreset |-> condition.frequencyPreset,
             lastInspectionDate |->
                 IF condition.lastInspectionDate # 0
                 THEN condition.lastInspectionDate
                 ELSE maxDateISO(condition.inspections),
             notes |-> condition.notes,
             active |-> TRUE,
             createdAt |-> stamp,
             updatedAt |-> stamp]
    IN  IF condition.frequencyPreset = "custom"
        THEN Spread(base, [customMonthsInterval |-> condition.customMonthsInterval])
        ELSE base

\* Faulty variant: the existing lastInspectionDate is left out of the maximum.
MergedFromParsedOnly(existingCondition, parsedCondition) ==
    maxDateISO(SelectSeq(
        (IF parsedCondition.lastInspectionDate # 0
         THEN <<parsedCondition.lastInspectionDate>> ELSE <<>>)
        \o parsedCondition.inspections,
        LAMBDA v : v # 0))

\* maxDateISO([...existing last, ...parsed last, ...parsed inspections].filter(Boolean))
MergedLastInspection(existingCondition, parsedCondition) ==
    maxDateISO(SelectSeq(
        (IF "lastInspectionDate" \in DOMAIN existingCondition
            /\ existingCondition.lastInspectionDate # 0
         THEN <<existingCondition.lastInspectionDate>> ELSE <<>>)
        \o (IF parsedCondition.lastInspectionDate # 0
            THEN <<parsedCondition.lastInspectionDate>> ELSE <<>>)
        \o parsedCondition.inspections,
        LAMBDA v : v # 0))

\* const updatedCondition = {...existingCondition, ...conditionPayload, ...}
UpdatedCondition(existingCondition, conditionPayload, parsedCondition, stamp) ==
    Spread(Spread(existingCondition, conditionPayload),
           [createdAt |-> existingCondition.createdAt,
            lastInspectionDate |->
                MergedLastInspection(existingCondition, parsedCondition),
            updatedAt |-> stamp])

\* Faulty variant: the comparator is reversed (b.localeCompare(a)).
DescendingInspectionDates(parsedCondition) ==
    LET asc == AscendingSeq(Range(parsedCondition.inspections))
    IN  [k \in 1..Len(asc) |-> asc[Len(asc) + 1 - k]]

\* Array.from(new Set(parsedCondition.inspections)).sort((a, b) => a.localeCompare(b))
SortedInspectionDates(parsedCondition) ==
    AscendingSeq(Range(parsedCondition.inspections))

\* Faulty variant: the duplicate test compares the inspection's own id with the
\* condition id.
IsDuplicateInspectionById(list, condId, inspectionDateValue) ==
    \E k \in 1..Len(list) :
        /\ list[k].id = condId
        /\ list[k].inspectionDate = inspectionDateValue

\* currentInspections.some(inspection => inspection.conditionId === conditionId
\*                          && inspection.inspectionDate === inspectionDateValue)
IsDuplicateInspection(list, condId, inspectionDateValue) ==
    \E k \in 1..Len(list) :
        /\ list[k].conditionId = condId
        /\ list[k].inspectionDate = inspectionDateValue

(***************************************************************************)
(* The storage collaborators                                               *)
(***************************************************************************)

Call(op, arg) ==
    [run |-> runNo, item |-> itemIndex, op |-> op, arg |-> arg,
     status |-> "pending", result |-> 0]

\* The outcome of the call in flight is written on its log entry.
Settle(status, result) ==
    [calls EXCEPT ![Len(calls)].status = status, ![Len(calls)].result = result]

PendingCall == calls[Len(calls)]

\* addLao / addCondition: the store keeps the data under a fresh identifier.
StoreAdd(db, data) == Append(db, Spread(data, [id |-> nextId]))

\* updateLao / updateCondition: the store replaces the record of that id.
StoreUpdate(db, record) ==
    [k \in 1..Len(db) |-> IF db[k].id = record.id THEN record ELSE db[k]]

\* addInspection signals a duplicate (conditionId, inspectionDate) with null,
\* when the store checks for one.
StoreRejectsInspection(data) ==
    /\ rejectsDuplicates
    /\ \E k \in 1..Len(inspectionsDb) :
          /\ inspectionsDb[k].conditionId = data.conditionId
          /\ inspectionsDb[k].inspectionDate = data.inspectionDate

(***************************************************************************)
(* executeImport: the steps between two awaits                             *)
(***************************************************************************)

Item == parsedItems[itemIndex]
ParsedCond == Item.conditions[condIndex]

\* Faulty variant: the shadow copies are read from the store, not from the
\* props the screen was rendered with.
StartImportFromStore ==
    /\ pc = "idle"
    /\ pc' = "item"
    /\ runNo' = runNo + 1
    /\ summary' = EmptySummary
    /\ currentLaos' = laosDb
    /\ currentConditions' = conditionsDb
    /\ currentInspections' = inspectionsDb
    /\ itemIndex' = 1
    /\ UNCHANGED <<auxVars, propVars, storeVars, clock, parsedItems, itemLocals,
                   condIndex, conditionLocals, dateIndex, calls, faults>>

\* Lines 1637-1652: the summary and the shadow copies.
StartImport ==
    /\ pc = "idle"
    /\ pc' = "item"
    /\ runNo' = runNo + 1
    /\ summary' = EmptySummary
    /\ currentLaos' = laos
    /\ currentConditions' = conditions
    /\ currentInspections' = inspections
    /\ itemIndex' = 1
    /\ UNCHANGED <<auxVars, propVars, storeVars, clock, parsedItems, itemLocals,
                   condIndex, conditionLocals, dateIndex, calls, faults>>

\* Lines 1683-1694: the pending-branch bookkeeping of one item.
NotePendingBranch(sum, item, branchId) ==
    IF branchId = 0
    THEN [sum EXCEPT
            !.pendingBranch = @ + 1,
            !.pendingItems = Append(@,
                [laoNumber |-> item.laoNumber,
                 empreendimento |-> item.empreendimento,
                 reason |-> "Filial nao encontrada automaticamente"])]
    ELSE sum

\* Faulty variant: the test is "=== null", which the '' of a missing date never is.
MissingValidityStrictNull(laoPayload) == FALSE

\* Line 1722: if (!laoPayload.validityDate)
MissingValidity(laoPayload) == laoPayload.validityDate = 0

\* Lines 1683-1743: one item up to the await of its LAO write.
BeginItem ==
    /\ pc = "item"
    /\ itemIndex <= Len(parsedItems)
    /\ LET item == Item
           key == getImportKey(item.laoNumber, item.empreendimento)
           branchId == findMatchingBranch(item.empreendimento)
           existing == FindLaoByKey(currentLaos, key)
           laoPayload == LaoPayload(item, branchId, existing, clock)
           noted == NotePendingBranch(summary, item, branchId)
       IN  /\ now' = clock
           /\ clock' = clock + 1
           /\ lao' = existing
           /\ IF MissingValidity(laoPayload)
              THEN /\ summary' = [noted EXCEPT !.importErrors = Append(@,
                                     [kind |-> "validity", laoNumber |-> item.laoNumber])]
                   /\ itemIndex' = itemIndex + 1
                   /\ UNCHANGED <<pc, calls>>
              ELSE /\ summary' = noted
                   /\ calls' = Append(calls,
                         IF Found(existing)
                         THEN Call("updateLao", UpdatedLao(existing, laoPayload))
                         ELSE Call("addLao", laoPayload))
                   /\ pc' = "laoCall"
                   /\ UNCHANGED itemIndex
    /\ UNCHANGED <<auxVars, propVars, storeVars, parsedItems, currentLaos,
                   currentConditions, currentInspections, condIndex,
                   conditionLocals, dateIndex, runNo, faults>>

\* Lines 1736-1749: the LAO write has returned.
LaoWriteReturns ==
    /\ pc = "laoCall"
    /\ LET call == PendingCall
       IN  IF call.op = "updateLao"
           THEN /\ laosDb' = StoreUpdate(laosDb, call.arg)
                /\ calls' = Settle("ok", 0)
                /\ summary' = [summary EXCEPT !.updated = @ + 1]
                /\ lao' = call.arg
                /\ currentLaos' = ReplaceById(currentLaos, call.arg)
                /\ UNCHANGED nextId
           ELSE /\ laosDb' = StoreAdd(laosDb, call.arg)
                /\ nextId' = nextId + 1
                /\ calls' = Settle("ok", nextId)
                /\ lao' = Spread([id |-> nextId], call.arg)
                /\ currentLaos' = Push(currentLaos, Spread([id |-> nextId], call.arg))
                /\ summary' = [summary EXCEPT !.created = @ + 1]
    /\ condIndex' = 1
    /\ pc' = "cond"
    /\ UNCHANGED <<auxVars, propVars, conditionsDb, inspectionsDb, rejectsDuplicates, clock,
                   parsedItems, currentConditions, currentInspections, itemIndex, now,
                   conditionLocals, dateIndex, runNo, faults>>

\* Lines 1751-1791: one parsed condition up to the await of its write.
BeginCondition ==
    /\ pc = "cond"
    /\ condIndex <= Len(Item.conditions)
    /\ LET parsedCondition == ParsedCond
           normalizedName == normalizeText(parsedCondition.name)
           existingCondition == FindCondition(currentConditions, lao.id, normalizedName)
           conditionPayload == normalizeConditionForImport(lao.id, parsedCondition, now)
       IN  /\ conditionId' = existingCondition.id
           /\ calls' = Append(calls,
                 IF Found(existingCondition)
                 THEN Call("updateCondition",
                           UpdatedCondition(existingCondition, conditionPayload,
                                            parsedCondition, now))
                 ELSE Call("addCondition", conditionPayload))
    /\ pc' = "condCall"
    /\ UNCHANGED <<auxVars, propVars, storeVars, clock, parsedItems, summary, currentLaos,
                   currentConditions, currentInspections, itemIndex, itemLocals,
                   condIndex, sortedInspectionDates, dateIndex, runNo, faults>>

\* End of the condition loop: on to the next item.
EndConditions ==
    /\ pc = "cond"
    /\ condIndex > Len(Item.conditions)
    /\ itemIndex' = itemIndex + 1
    /\ pc' = "item"
    /\ UNCHANGED <<auxVars, propVars, storeVars, clock, parsedItems, summary, currentLaos,
                   currentConditions, currentInspections, itemLocals, condIndex,
                   conditionLocals, dateIndex, calls, runNo, faults>>

\* Lines 1784-1799: the condition write has returned.
ConditionWriteReturns ==
    /\ pc = "condCall"
    /\ LET call == PendingCall
       IN  IF call.op = "updateCondition"
           THEN /\ conditionsDb' = StoreUpdate(conditionsDb, call.arg)
                /\ calls' = Settle("ok", 0)
                /\ summary' = [summary EXCEPT !.conditionUpdated = @ + 1]
                /\ conditionId' = call.arg.id
                /\ currentConditions' = ReplaceById(currentConditions, call.arg)
                /\ UNCHANGED nextId
           ELSE /\ conditionsDb' = StoreAdd(conditionsDb, call.arg)
                /\ nextId' = nextId + 1
                /\ calls' = Settle("ok", nextId)
                /\ summary' = [summary EXCEPT !.conditionCreated = @ + 1]
                /\ conditionId' = nextId
                /\ currentConditions' =
                       Push(currentConditions, Spread([id |-> nextId], call.arg))
    /\ sortedInspectionDates' = SortedInspectionDates(ParsedCond)
    /\ dateIndex' = 1
    /\ pc' = "insp"
    /\ UNCHANGED <<auxVars, propVars, laosDb, inspectionsDb, rejectsDuplicates, clock,
                   parsedItems, currentLaos, currentInspections, itemIndex, itemLocals, condIndex, runNo,
                   faults>>

\* const createdInspection = {laoId, conditionId, inspectionDate, source, createdAt}
InspectionPayload(inspectionDateValue) ==
    [laoId |-> lao.id, conditionId |-> conditionId,
     inspectionDate |-> inspectionDateValue, source |-> "import",
     createdAt |-> now]

\* Lines 1801-1812: one inspection date up to the await of addInspection.
BeginInspection ==
    /\ pc = "insp"
    /\ dateIndex <= Len(sortedInspectionDates)
    /\ LET inspectionDateValue == sortedInspectionDates[dateIndex]
       IN  IF IsDuplicateInspection(currentInspections, conditionId, inspectionDateValue)
           THEN /\ summary' = [summary EXCEPT !.inspectionsSkipped = @ + 1]
                /\ dateIndex' = dateIndex + 1
                /\ UNCHANGED <<pc, calls>>
           ELSE /\ calls' = Append(calls,
                      Call("addInspection", InspectionPayload(inspectionDateValue)))
                /\ pc' = "inspCall"
                /\ UNCHANGED <<summary, dateIndex>>
    /\ UNCHANGED <<auxVars, propVars, storeVars, clock, parsedItems, currentLaos,
                   currentConditions, currentInspections, itemIndex, itemLocals,
                   condIndex, conditionLocals, runNo, faults>>

\* End of the date loop: on to the next parsed condition.
EndInspections ==
    /\ pc = "insp"
    /\ dateIndex > Len(sortedInspectionDates)
    /\ condIndex' = condIndex + 1
    /\ pc' = "cond"
    /\ UNCHANGED <<auxVars, propVars, storeVars, clock, parsedItems, summary, currentLaos,
                   currentConditions, currentInspections, itemIndex, itemLocals,
                   conditionLocals, dateIndex, calls, runNo, faults>>

\* Faulty variant: a call that returned no identifier is counted as created
\* and its inspection is added to the inspections the run knows.
InspectionReturnsCountingNull ==
    /\ pc = "inspCall"
    /\ LET call == PendingCall
       IN  IF StoreRejectsInspection(call.arg)
           THEN /\ calls' = Settle("ok", 0)
                /\ summary' = [summary EXCEPT !.inspectionsCreated = @ + 1]
                /\ currentInspections' =
                       Push(currentInspections, Spread([id |-> 0], call.arg))
                /\ UNCHANGED <<inspectionsDb, nextId>>
           ELSE /\ inspectionsDb' = StoreAdd(inspectionsDb, call.arg)
                /\ nextId' = nextId + 1
                /\ calls' = Settle("ok", nextId)
                /\ summary' = [summary EXCEPT !.inspectionsCreated = @ + 1]
                /\ currentInspections' =
                       Push(currentInspections, Spread([id |-> nextId], call.arg))
    /\ dateIndex' = dateIndex + 1
    /\ pc' = "insp"
    /\ UNCHANGED <<auxVars, propVars, laosDb, conditionsDb, rejectsDuplicates, clock,
                   parsedItems, currentLaos, currentConditions, itemIndex, itemLocals, condIndex,
                   conditionLocals, runNo, faults>>

\* Lines 1812-1833: addInspection has returned an identifier or null.
InspectionReturns ==
    /\ pc = "inspCall"
    /\ LET call == PendingCall
       IN  IF StoreRejectsInspection(call.arg)
           THEN /\ calls' = Settle("ok", 0)
                /\ summary' = [summary EXCEPT !.inspectionsSkipped = @ + 1]
                /\ UNCHANGED <<inspectionsDb, nextId, currentInspections>>
           ELSE /\ inspectionsDb' = StoreAdd(inspectionsDb, call.arg)
                /\ nextId' = nextId + 1
                /\ calls' = Settle("ok", nextId)
                /\ summary' = [summary EXCEPT !.inspectionsCreated = @ + 1]
                /\ currentInspections' =
                       Push(currentInspections, Spread([id |-> nextId], call.arg))
    /\ dateIndex' = dateIndex + 1
    /\ pc' = "insp"
    /\ UNCHANGED <<auxVars, propVars, laosDb, conditionsDb, rejectsDuplicates, clock,
                   parsedItems, currentLaos, currentConditions, itemIndex, itemLocals, condIndex,
                   conditionLocals, runNo, faults>>

\* Faulty variant: one try/catch around the whole loop, so a failure ends the loop.
ItemAfterCatchOutsideLoop(failedIndex) == Len(parsedItems) + 1

\* Lines 1681-1682 and 1836-1841: the try/catch is inside the loop, so the
\* loop goes on with the item after the failed one.
ItemAfterCatch(failedIndex) == failedIndex + 1

\* Lines 1836-1840: the awaited call throws; the catch of the item reports it.
\* Calls throw in the first import only: the second one is there for the
\* idempotence of a repeated import.
CollaboratorThrows ==
    /\ pc \in {"laoCall", "condCall", "inspCall"}
    /\ runNo = 1
    /\ faults < MaxFaults
    /\ faults' = faults + 1
    /\ calls' = Settle("threw", 0)
    /\ summary' = [summary EXCEPT !.importErrors = Append(@,
                      [kind |-> "failure", laoNumber |-> Item.laoNumber])]
    /\ itemIndex' = ItemAfterCatch(itemIndex)
    /\ pc' = "item"
    /\ UNCHANGED <<auxVars, propVars, storeVars, clock, parsedItems, currentLaos,
                   currentConditions, currentInspections, itemLocals, condIndex,
                   conditionLocals, dateIndex, runNo>>

\* Line 1843: return summary.
ReturnSummary ==
    /\ pc = "item"
    /\ itemIndex > Len(parsedItems)
    /\ pc' = "done"
    /\ UNCHANGED <<auxVars, propVars, storeVars, clock, parsedItems, summary, currentLaos,
                   currentConditions, currentInspections, itemIndex, itemLocals,
                   condIndex, conditionLocals, dateIndex, calls, runNo, faults>>

\* The screen is rendered again with the store's records as props, and the
\* same parsed list is imported once more after an import in which no call
\* threw.
RefreshSnapshot ==
    /\ pc = "done"
    /\ runNo = 1
    /\ faults = 0
    /\ laos' = laosDb
    /\ conditions' = conditionsDb
    /\ inspections' = inspectionsDb
    /\ pc' = "idle"
    /\ UNCHANGED <<auxVars, branches, storeVars, clock, parsedItems, summary, currentLaos,
                   currentConditions, currentInspections, itemIndex, itemLocals,
                   condIndex, conditionLocals, dateIndex, calls, runNo, faults>>

Next ==
    \/ StartImport
    \/ BeginItem
    \/ LaoWriteReturns
    \/ BeginCondition
    \/ EndConditions
    \/ ConditionWriteReturns
    \/ BeginInspection
    \/ EndInspections
    \/ InspectionReturns
    \/ CollaboratorThrows
    \/ ReturnSummary
    \/ RefreshSnapshot

Spec == Init /\ [][Next]_vars

(***************************************************************************)
(* Properties                                                              *)
(***************************************************************************)

RECURSIVE SumSeq(_)
SumSeq(nums) == IF nums = <<>> THEN 0 ELSE Head(nums) + SumSeq(Tail(nums))

SumOver(arr, F(_)) == SumSeq([k \in 1..Len(arr) |-> F(arr[k])])

\* The items the reconciler does not reject: those with a validityDate.
HasValidity(item) == item.validityDate # 0
NumWithValidity == SumOver(parsedItems, LAMBDA item : IF HasValidity(item) THEN 1 ELSE 0)

\* The inspections the list carries: for every item with a validityDate and
\* every parsed condition of it, its distinct dates.
DistinctDates(parsedCondition) == Cardinality(Range(parsedCondition.inspections))
CarriedInspections ==
    SumOver(parsedItems, LAMBDA item :
        IF HasValidity(item) THEN SumOver(item.conditions, DistinctDates) ELSE 0)

SecondRunDone == runNo = 2 /\ pc = "done" /\ faults = 0

\* C1 as stated: after a second import of the same list against the store
\* the first import left, created = 0, updated = N (the length of the
\* list), inspectionsCreated = 0 and inspectionsSkipped = M.
C1_IdempotentAllItems ==
    SecondRunDone =>
        /\ summary.created = 0
        /\ summary.updated = Len(parsedItems)
        /\ summary.inspectionsCreated = 0
        /\ summary.inspectionsSkipped = CarriedInspections

\* C1 amended: the second import of the same list creates nothing: created = 0,
\* updated = the number of items that have a validityDate (the others are
\* rejected again), inspectionsCreated = 0 and inspectionsSkipped = the number
\* of distinct dates carried by the conditions of those items.
C1_Idempotent ==
    SecondRunDone =>
        /\ summary.created = 0
        /\ summary.updated = NumWithValidity
        /\ summary.inspectionsCreated = 0
        /\ summary.inspectionsSkipped = CarriedInspections

\* A second import that updated two items and skipped inspections.
C1_Witness ==
    /\ SecondRunDone
    /\ summary.updated = 2
    /\ summary.inspectionsSkipped >= 4

\* The collaborator calls of the import that is running (or has just ended).
RunCalls == {k \in 1..Len(calls) : calls[k].run = runNo}
LaoOps == {"addLao", "updateLao"}
ConditionOps == {"addCondition", "updateCondition"}
ArgKey(call) == getImportKey(call.arg.laoNumber, call.arg.empreendimento)

\* An import has started from the props and has not been followed by a
\* refresh of the props.
InRun == pc # "idle"

NoTwoInspections(list) ==
    \A j, k \in 1..Len(list) :
        j # k =>
            ~ /\ list[j].conditionId = list[k].conditionId
              /\ list[j].inspectionDate = list[k].inspectionDate

\* C2: when the inspections the run started from hold no two inspections
\* with the same (conditionId, inspectionDate), neither do the inspections
\* known to the run (currentInspections), at any point of the run.
C2_InspectionsUnique ==
    (InRun /\ NoTwoInspections(inspections)) => NoTwoInspections(currentInspections)

\* An import into the empty store that met a repeated (condition, date) in
\* its own list, skipped it and inserted the other dates.
C2_Witness ==
    /\ runNo = 1
    /\ pc = "done"
    /\ laos = <<>>
    /\ summary.inspectionsSkipped >= 1
    /\ Len(currentInspections) >= 3

\* (laoId, normalized name) of a condition record or addCondition argument.
ConditionKey(record) == <<record.laoId, normalizeText(record.name)>>

\* C3: addCondition is never called for a (laoId, normalized name) that the
\* store held when the run started or that an earlier addCondition of the
\* run created; an updateCondition for a pair created in the run goes to the
\* condition that addCondition returned; and the conditions known to the run
\* hold at most one condition per (laoId, normalized name).
C3_ConditionsUnique ==
    /\ \A j, k \in 1..Len(currentConditions) :
          j # k => ConditionKey(currentConditions[j]) # ConditionKey(currentConditions[k])
    /\ \A k \in RunCalls :
          (InRun /\ calls[k].op = "addCondition") =>
              /\ \A n \in 1..Len(conditions) :
                    ConditionKey(conditions[n]) # ConditionKey(calls[k].arg)
              /\ \A j \in RunCalls :
                    (j < k /\ calls[j].op = "addCondition" /\ calls[j].status = "ok")
                        => ConditionKey(calls[j].arg) # ConditionKey(calls[k].arg)
    /\ \A j, k \in RunCalls :
          (/\ j < k
           /\ calls[j].op = "addCondition"
           /\ calls[j].status = "ok"
           /\ calls[k].op = "updateCondition"
           /\ ConditionKey(calls[j].arg) = ConditionKey(calls[k].arg))
              => calls[k].arg.id = calls[j].result

\* Two parsed conditions whose names differ by case and spacing: the first
\* was added, the second updated the condition that was added.
C3_Witness ==
    \E j, k \in RunCalls :
        /\ j < k
        /\ calls[j].op = "addCondition"
        /\ calls[j].status = "ok"
        /\ calls[k].op = "updateCondition"
        /\ calls[k].status = "ok"
        /\ calls[k].arg.id = calls[j].result
        /\ calls[j].arg.name # calls[k].arg.name

\* C4 as stated: addLao is never called twice for the same import key within
\* one run.
C4_AddLaoCalledOncePerKey ==
    \A j, k \in RunCalls :
        (j < k /\ calls[j].op = "addLao" /\ calls[k].op = "addLao")
            => ArgKey(calls[j]) # ArgKey(calls[k])

\* C4 amended: once addLao has returned an id for an import key, the run
\* never calls addLao for that key again: every later LAO write of the run
\* for that key is an updateLao of the record with the returned id. (addLao
\* is called again for the key only after an addLao that threw.)
C4_WithinRunLaoDedup ==
    /\ \A j, k \in RunCalls :
          (/\ j < k
           /\ calls[j].op = "addLao"
           /\ calls[j].status = "ok"
           /\ calls[k].op \in LaoOps
           /\ ArgKey(calls[j]) = ArgKey(calls[k]))
              => (calls[k].op = "updateLao" /\ calls[k].arg.id = calls[j].result)
    /\ \A j, k \in RunCalls :
          (/\ j < k
           /\ calls[j].op = "addLao"
           /\ calls[k].op = "addLao"
           /\ ArgKey(calls[j]) = ArgKey(calls[k]))
              => calls[j].status = "threw"

\* Two items of one list with the same import key and different spellings:
\* the first was created, the second updated the record created for it.
C4_Witness ==
    \E j, k \in RunCalls :
        /\ j < k
        /\ calls[j].op = "addLao"
        /\ calls[j].status = "ok"
        /\ calls[k].op = "updateLao"
        /\ calls[k].status = "ok"
        /\ calls[k].item # calls[j].item
        /\ calls[k].arg.id = calls[j].result
        /\ calls[k].arg.laoNumber # calls[j].arg.laoNumber

\* The items the running import has taken up so far.
Processed(i) == i < itemIndex \/ (i = itemIndex /\ pc \in {"laoCall", "cond", "condCall", "insp", "inspCall"})
ProcessedItems == {i \in 1..Len(parsedItems) : Processed(i)}
ThrownCalls == {k \in RunCalls : calls[k].status = "threw"}

\* The calls that threw, in call order, as the importErrors entries they cause.
RECURSIVE FailureEntries(_)
FailureEntries(k) ==
    IF k = 0 THEN <<>>
    ELSE FailureEntries(k - 1) \o
         (IF k \in ThrownCalls
          THEN <<[kind |-> "failure", laoNumber |-> parsedItems[calls[k].item].laoNumber]>>
          ELSE <<>>)

\* A step in which the awaited collaborator call throws.
ThrowStep ==
    /\ pc \in {"laoCall", "condCall", "inspCall"}
    /\ Len(calls') = Len(calls)
    /\ calls'[Len(calls')].status = "threw"

\* C5: a collaborator call that throws while item i is processed appends
\* exactly one importErrors entry for item i, writes nothing and rolls
\* nothing back (store and shadow copies are as before the throw), abandons
\* the rest of item i (no later call of the run belongs to item i), and the
\* loop goes on: when the run returns its summary every item with a
\* validityDate has had its LAO write called.
C5_FailureIsolation ==
    /\ [](/\ \A k \in ThrownCalls : \A j \in RunCalls : j > k => calls[j].item # calls[k].item
          /\ SelectSeq(summary.importErrors, LAMBDA err : err.kind = "failure")
                = FailureEntries(Len(calls))
          /\ (InRun /\ pc = "done") =>
                \A i \in 1..Len(parsedItems) :
                    HasValidity(parsedItems[i]) =>
                        \E k \in RunCalls : calls[k].item = i /\ calls[k].op \in LaoOps)
    /\ [][ThrowStep =>
            /\ summary'.importErrors = Append(summary.importErrors,
                   [kind |-> "failure", laoNumber |-> parsedItems[itemIndex].laoNumber])
            /\ [summary' EXCEPT !.importErrors = <<>>] = [summary EXCEPT !.importErrors = <<>>]
            /\ itemIndex' = itemIndex + 1
            /\ pc' = "item"
            /\ UNCHANGED <<laosDb, conditionsDb, inspectionsDb, currentLaos,
                           currentConditions, currentInspections>>]_vars

\* The first of two items failed at its condition write, after its LAO had
\* been created; the LAO stayed in the store and the second item was imported.
C5_Witness ==
    /\ runNo = 1
    /\ pc = "done"
    /\ Len(parsedItems) = 2
    /\ \E k \in ThrownCalls :
          /\ calls[k].item = 1
          /\ calls[k].op = "addCondition"
          /\ \E j \in RunCalls :
                /\ j < k
                /\ calls[j].op = "addLao"
                /\ calls[j].status = "ok"
                /\ \E n \in 1..Len(laosDb) : laosDb[n].id = calls[j].result
    /\ \E k \in RunCalls : calls[k].item = 2 /\ calls[k].status = "ok"
    /\ Len(summary.importErrors) = 1

\* The empreendimento equals no branch name after normalization.
MatchesNoBranch(item) ==
    \A n \in 1..Len(branches) :
        normalizeText(branches[n].name) # normalizeText(item.empreendimento)

RECURSIVE PendingEntries(_)
PendingEntries(i) ==
    IF i = 0 THEN <<>>
    ELSE PendingEntries(i - 1) \o
         (IF Processed(i) /\ MatchesNoBranch(parsedItems[i])
          THEN <<[laoNumber |-> parsedItems[i].laoNumber,
                  empreendimento |-> parsedItems[i].empreendimento,
                  reason |-> "Filial nao encontrada automaticamente"]>>
          ELSE <<>>)

PendingBookkeeping ==
    /\ summary.pendingBranch = Len(summary.pendingItems)
    /\ summary.pendingItems = PendingEntries(Len(parsedItems))

LaoWriteWithoutBranch(i) ==
    \E k \in RunCalls :
        /\ calls[k].item = i
        /\ calls[k].op \in LaoOps
        /\ calls[k].arg.branchId = 0

\* C6 as stated: every item whose empreendimento matches no branch adds one
\* to pendingBranch and one pendingItems entry, and its LAO is still created
\* or updated, with branchId = null; pendingBranch = length of pendingItems.
C6_PendingBranchAlwaysWrites ==
    /\ PendingBookkeeping
    /\ \A i \in ProcessedItems :
          MatchesNoBranch(parsedItems[i]) => LaoWriteWithoutBranch(i)

\* C6 amended: every item whose empreendimento matches no branch adds one to
\* pendingBranch and one pendingItems entry, whether or not the item is then
\* rejected; unless it is rejected for its empty validityDate, addLao or
\* updateLao is called for it with branchId = null; pendingBranch = length
\* of pendingItems.
C6_PendingBranchNotBlocking ==
    /\ PendingBookkeeping
    /\ \A i \in ProcessedItems :
          (MatchesNoBranch(parsedItems[i]) /\ HasValidity(parsedItems[i]))
              => LaoWriteWithoutBranch(i)

\* An item of an unknown site was counted as pending and its LAO was created
\* without a branch.
C6_Witness ==
    /\ summary.pendingBranch = 1
    /\ \E k \in RunCalls :
          /\ calls[k].op = "addLao"
          /\ calls[k].status = "ok"
          /\ calls[k].arg.branchId = 0
          /\ MatchesNoBranch(parsedItems[calls[k].item])
          /\ \E n \in 1..Len(laosDb) :
                laosDb[n].id = calls[k].result /\ laosDb[n].branchId = 0

\* A step in which addLao or updateLao is called.
LaoWriteStep ==
    /\ Len(calls') = Len(calls) + 1
    /\ calls'[Len(calls')].op \in LaoOps

KnownWithKey(key) ==
    {n \in 1..Len(currentLaos) :
        getImportKey(currentLaos[n].laoNumber, currentLaos[n].empreendimento) = key}

\* record.attachments || []
AttachmentsOf(record) ==
    IF "attachments" \in DOMAIN record THEN record.attachments ELSE <<>>

\* C7: when the item's import key is that of a LAO known to the run, the
\* call is updateLao (not addLao) and its record has the id, createdAt and
\* attachments of the known record (no attachments at all being the empty
\* list).
C7_UpdatePreservesIdentity ==
    [][LaoWriteStep =>
        LET call == calls'[Len(calls')]
            known == KnownWithKey(getImportKey(parsedItems[itemIndex].laoNumber,
                                               parsedItems[itemIndex].empreendimento))
        IN  IF known # {}
            THEN /\ call.op = "updateLao"
                 /\ \E n \in known :
                       /\ call.arg.id = currentLaos[n].id
                       /\ call.arg.createdAt = currentLaos[n].createdAt
                       /\ call.arg.attachments = AttachmentsOf(currentLaos[n])
            ELSE call.op = "addLao"]_vars

\* The stored LAO, spelled differently in the list, was updated with its id,
\* createdAt and attachment.
C7_Witness ==
    /\ Len(calls) > 0
    /\ calls[Len(calls)].op = "updateLao"
    /\ calls[Len(calls)].status = "ok"
    /\ calls[Len(calls)].arg.id = StoredLao.id
    /\ calls[Len(calls)].arg.createdAt = StoredLao.createdAt
    /\ calls[Len(calls)].arg.attachments = StoredLao.attachments
    /\ calls[Len(calls)].arg.attachments # <<>>
    /\ calls[Len(calls)].arg.laoNumber # StoredLao.laoNumber
    /\ calls[Len(calls)].arg.updatedAt # StoredLao.updatedAt

ItemKey(item) == getImportKey(item.laoNumber, item.empreendimento)
RecordKey(record) == getImportKey(record.laoNumber, record.empreendimento)

\* Some item of the list has the import key.
KeyInList(key) == \E i \in 1..Len(parsedItems) : ItemKey(parsedItems[i]) = key

\* Some item of the list with that import key has a parsed condition of
\* that normalized name.
ConditionInList(key, normalizedName) ==
    \E i \in 1..Len(parsedItems) :
        /\ ItemKey(parsedItems[i]) = key
        /\ \E c \in 1..Len(parsedItems[i].conditions) :
              normalizeText(parsedItems[i].conditions[c].name) = normalizedName

\* The import keys of the LAO with that id, among the given records.
KeysOfLao(records, laoId) ==
    {RecordKey(records[n]) : n \in {m \in 1..Len(records) : records[m].id = laoId}}

\* C8: the run calls no collaborator but addLao, updateLao, addCondition,
\* updateCondition and addInspection; the record of every updateLao has the
\* import key of some item; the record of every updateCondition has the
\* normalized name of a parsed condition of an item with the key of its
\* LAO; and the records the run started from that no item matches are, as
\* they were, in the shadow copies and in the store.
C8_OnlyAddsOrUpdates ==
    /\ \A k \in 1..Len(calls) :
          calls[k].op \in LaoOps \cup ConditionOps \cup {"addInspection"}
    /\ \A k \in RunCalls :
          /\ calls[k].op = "updateLao" => KeyInList(ArgKey(calls[k]))
          /\ (InRun /\ calls[k].op = "updateCondition") =>
                \E key \in KeysOfLao(currentLaos, calls[k].arg.laoId) :
                    ConditionInList(key, normalizeText(calls[k].arg.name))
    /\ InRun =>
          /\ \A n \in 1..Len(laos) :
                ~KeyInList(RecordKey(laos[n])) =>
                    /\ laos[n] \in Range(currentLaos)
                    /\ laos[n] \in Range(laosDb)
          /\ \A n \in 1..Len(conditions) :
                (\A key \in KeysOfLao(laos, conditions[n].laoId) :
                    ~ConditionInList(key, normalizeText(conditions[n].name))) =>
                    /\ conditions[n] \in Range(currentConditions)
                    /\ conditions[n] \in Range(conditionsDb)
          /\ \A n \in 1..Len(inspections) :
                /\ inspections[n] \in Range(currentInspections)
                /\ inspections[n] \in Range(inspectionsDb)

\* An import that updated a LAO and a condition it had created itself, while
\* the stored LAO and the stored condition, which no item matched, are as
\* they were.
C8_Witness ==
    /\ InRun
    /\ pc = "done"
    /\ StoredLao \in Range(laos)
    /\ ~KeyInList(RecordKey(StoredLao))
    /\ \E k \in RunCalls : calls[k].op = "updateLao" /\ calls[k].status = "ok"
    /\ \E k \in RunCalls : calls[k].op = "updateCondition" /\ calls[k].status = "ok"
    /\ StoredLao \in Range(laosDb)
    /\ StoredCondition \in Range(conditionsDb)

\* The step that takes up an item with an empty validityDate.
RejectStep ==
    /\ pc = "item"
    /\ itemIndex <= Len(parsedItems)
    /\ ~HasValidity(parsedItems[itemIndex])
    /\ itemIndex' # itemIndex

Counters(sum) ==
    <<sum.created, sum.updated, sum.conditionCreated, sum.conditionUpdated,
      sum.inspectionsCreated, sum.inspectionsSkipped>>

\* C9: an item with an empty validityDate appends one importErrors entry,
\* causes no collaborator call, leaves created, updated and the condition and
\* inspection counters, the store and the shadow copies as they were, and
\* the loop goes on with the next item.
C9_ValidityRecheck ==
    /\ [](\A k \in RunCalls : HasValidity(parsedItems[calls[k].item]))
    /\ [][RejectStep =>
            /\ summary'.importErrors = Append(summary.importErrors,
                   [kind |-> "validity", laoNumber |-> parsedItems[itemIndex].laoNumber])
            /\ Counters(summary') = Counters(summary)
            /\ calls' = calls
            /\ itemIndex' = itemIndex + 1
            /\ pc' = "item"
            /\ UNCHANGED <<laosDb, conditionsDb, inspectionsDb, currentLaos,
                           currentConditions, currentInspections>>]_vars

\* The first item had no validityDate: it was reported and nothing was
\* written for it; the second item was created.
C9_Witness ==
    /\ runNo = 1
    /\ pc = "done"
    /\ Len(parsedItems) = 2
    /\ ~HasValidity(parsedItems[1])
    /\ summary.importErrors =
          <<[kind |-> "validity", laoNumber |-> parsedItems[1].laoNumber]>>
    /\ \A k \in RunCalls : calls[k].item = 2
    /\ summary.created = 1
    /\ summary.inspectionsCreated >= 1

\* The identifier of the condition a condition write is about.
WrittenConditionId(call) ==
    IF call.op = "addCondition" THEN call.result ELSE call.arg.id

\* C10: at most one collaborator call is outstanding (only the last call of
\* the log can be pending, and it is exactly while the run awaits it); calls
\* follow the list order of the items; the first call of an item is its LAO
\* write and every other call of the item comes after that write has
\* returned; every addInspection comes after the write of its condition has
\* returned, with no other condition write in between; and the addInspection
\* calls issued for one parsed condition have strictly ascending dates.
C10_SequentialOrder ==
    /\ \A k \in 1..Len(calls) :
          calls[k].status = "pending" =>
              (k = Len(calls) /\ pc \in {"laoCall", "condCall", "inspCall"})
    /\ \A j, k \in RunCalls : j < k => calls[j].item <= calls[k].item
    /\ \A k \in RunCalls :
          IF calls[k].op \in LaoOps
          THEN \A j \in RunCalls : j < k => calls[j].item # calls[k].item
          ELSE \E j \in RunCalls :
                  /\ j < k
                  /\ calls[j].item = calls[k].item
                  /\ calls[j].op \in LaoOps
                  /\ calls[j].status = "ok"
    /\ \A k \in RunCalls :
          calls[k].op = "addInspection" =>
              \E j \in RunCalls :
                  /\ j < k
                  /\ calls[j].item = calls[k].item
                  /\ calls[j].op \in ConditionOps
                  /\ calls[j].status = "ok"
                  /\ WrittenConditionId(calls[j]) = calls[k].arg.conditionId
                  /\ \A m \in (j + 1)..(k - 1) : calls[m].op = "addInspection"
    /\ \A k \in RunCalls :
          (/\ k + 1 \in RunCalls
           /\ calls[k].op = "addInspection"
           /\ calls[k + 1].op = "addInspection")
              => calls[k].arg.inspectionDate < calls[k + 1].arg.inspectionDate

\* A parsed condition whose dates came unsorted: after its condition was
\* added, its inspections were added in ascending order.
C10_Witness ==
    \E k \in RunCalls :
        /\ k + 2 \in RunCalls
        /\ calls[k].op = "addCondition"
        /\ calls[k + 1].op = "addInspection"
        /\ calls[k + 2].op = "addInspection"
        /\ calls[k + 2].status = "ok"
        /\ calls[k + 1].arg.inspectionDate = D1
        /\ calls[k + 2].arg.inspectionDate = D3
        /\ parsedItems[calls[k].item].conditions[1].inspections = <<D3, D1>>

(***************************************************************************)
(* Two imports at once                                                     *)
(***************************************************************************)

\* Longest list handed to each of two imports that run at once.
MaxConcurrentItems == 1

\* Stores two imports start from; the props show all of the store.
ConcurrentStorePool ==
    {[laos |-> <<>>, conditions |-> <<>>, inspections |-> <<>>, nextId |-> 1],
     [laos |-> <<StoredLao>>, conditions |-> <<>>, inspections |-> <<>>,
      nextId |-> 5],
     [laos |-> <<StoredLao>>, conditions |-> <<StoredCondition>>,
      inspections |-> <<StoredInspection>>, nextId |-> 5]}

\* One condition with one inspection date, which no store holds.
CondD == ParsedCondition(NameM, "anual", 0, <<D2>>, 0)

\* Items of the lists imported twice at once: two spellings of one import
\* key, a license of an unknown site, an item without validityDate.
ConcurrentItemPool ==
    {ParsedItem(L1, SE, DV, <<CondD>>),
     ParsedItem(L1x, SEx, DV, <<>>),
     ParsedItem(L2, TT, DV, <<>>),
     ParsedItem(L2, TT, 0, <<CondD>>)}

\* The locals of the executeImport that is running.
RunContext ==
    [parsedItems |-> parsedItems, pc |-> pc, summary |-> summary,
     currentLaos |-> currentLaos, currentConditions |-> currentConditions,
     currentInspections |-> currentInspections, itemIndex |-> itemIndex,
     now |-> now, lao |-> lao, condIndex |-> condIndex,
     conditionId |-> conditionId,
     sortedInspectionDates |-> sortedInspectionDates, dateIndex |-> dateIndex,
     calls |-> calls, runNo |-> runNo, faults |-> faults]

\* The same workbook is imported twice at once (two sessions, or the same
\* button twice) from one rendering of the screen: neither import has
\* started, both have the same props and the same list.
InitConcurrent ==
    /\ branches = BranchList
    /\ \E st \in ConcurrentStorePool :
          /\ laosDb = st.laos
          /\ conditionsDb = st.conditions
          /\ inspectionsDb = st.inspections
          /\ nextId = st.nextId
          /\ laos = st.laos
          /\ conditions = st.conditions
          /\ inspections = st.inspections
    /\ rejectsDuplicates \in BOOLEAN
    /\ clock = 2
    /\ parsedItems \in
          UNION {[1..n -> ConcurrentItemPool] : n \in 1..MaxConcurrentItems}
    /\ pc = "idle"
    /\ summary = EmptySummary
    /\ currentLaos = <<>>
    /\ currentConditions = <<>>
    /\ currentInspections = <<>>
    /\ itemIndex = 0
    /\ now = 0
    /\ lao = NoRecord
    /\ condIndex = 0
    /\ conditionId = 0
    /\ sortedInspectionDates = <<>>
    /\ dateIndex = 0
    /\ calls = <<>>
    /\ runNo = 0
    /\ faults = 0
    /\ other = IdleRun(parsedItems)
    /\ manual = Unused
    /\ UtilitiesUnused

\* Lines 1736, 1743, 1784, 1790, 1812: while the running import awaits a
\* collaborator (or once it has returned) the event loop runs the other one.
Switch ==
    /\ pc \in {"laoCall", "condCall", "inspCall", "done"}
    /\ other.pc \notin {"none", "done"}
    /\ other' = RunContext
    /\ parsedItems' = other.parsedItems
    /\ pc' = other.pc
    /\ summary' = other.summary
    /\ currentLaos' = other.currentLaos
    /\ currentConditions' = other.currentConditions
    /\ currentInspections' = other.currentInspections
    /\ itemIndex' = other.itemIndex
    /\ now' = other.now
    /\ lao' = other.lao
    /\ condIndex' = other.condIndex
    /\ conditionId' = other.conditionId
    /\ sortedInspectionDates' = other.sortedInspectionDates
    /\ dateIndex' = other.dateIndex
    /\ calls' = other.calls
    /\ runNo' = other.runNo
    /\ faults' = other.faults
    /\ UNCHANGED <<utilVars, manual, propVars, storeVars, clock>>

\* Two imports whose collaborators succeed.
NextConcurrent ==
    \/ StartImport
    \/ BeginItem
    \/ LaoWriteReturns
    \/ BeginCondition
    \/ EndConditions
    \/ ConditionWriteReturns
    \/ BeginInspection
    \/ EndInspections
    \/ InspectionReturns
    \/ ReturnSummary
    \/ Switch

SpecConcurrent == InitConcurrent /\ [][NextConcurrent]_vars

BothImportsDone == pc = "done" /\ other.pc = "done"

LaosWithKey(db, key) ==
    {k \in 1..Len(db) : getImportKey(db[k].laoNumber, db[k].empreendimento) = key}

ConditionsNamed(db, laoId, normalizedName) ==
    {k \in 1..Len(db) :
        db[k].laoId = laoId /\ normalizeText(db[k].name) = normalizedName}

InspectionsOn(db, condId, date) ==
    {k \in 1..Len(db) :
        db[k].conditionId = condId /\ db[k].inspectionDate = date}

\* C11: two imports of one list that start from the same props and whose
\* steps interleave in any way leave duplicates in the store: two LAO records
\* for every import key the props did not show; two conditions for every
\* (laoId, normalized name) the props did not show on a LAO they did show;
\* and, when addInspection does not reject duplicates itself, two inspections
\* for every (conditionId, date) the props did not show on a condition they
\* did show.
C11_ConcurrentImportsDuplicate ==
    BothImportsDone =>
        \A i \in 1..Len(parsedItems) :
            LET item == parsedItems[i]
                key == getImportKey(item.laoNumber, item.empreendimento)
                shown == FindLaoByKey(laos, key)
            IN  HasValidity(item) =>
                  /\ ~Found(shown) => Cardinality(LaosWithKey(laosDb, key)) >= 2
                  /\ Found(shown) =>
                        \A c \in 1..Len(item.conditions) :
                            LET parsed == item.conditions[c]
                                name == normalizeText(parsed.name)
                                cond == FindCondition(conditions, shown.id, name)
                            IN  /\ ~Found(cond) =>
                                      Cardinality(ConditionsNamed(conditionsDb,
                                                      shown.id, name)) >= 2
                                /\ (Found(cond) /\ ~rejectsDuplicates) =>
                                      \A d \in Range(parsed.inspections) :
                                          ~IsDuplicateInspection(inspections, cond.id, d)
                                              => Cardinality(InspectionsOn(
                                                     inspectionsDb, cond.id, d)) >= 2

\* Both imports have returned and the store holds two LAO records with the
\* same import key, each import reporting one created record.
C11_Witness ==
    /\ BothImportsDone
    /\ summary.created = 1
    /\ other.summary.created = 1
    /\ \E j, k \in 1..Len(laosDb) :
          /\ j # k
          /\ getImportKey(laosDb[j].laoNumber, laosDb[j].empreendimento)
                 = getImportKey(laosDb[k].laoNumber, laosDb[k].empreendimento)

\* The same for two conditions of one LAO with the same normalized name.
C11_ConditionsDuplicated ==
    /\ BothImportsDone
    /\ \E j, k \in 1..Len(conditionsDb) :
          /\ j # k
          /\ conditionsDb[j].laoId = conditionsDb[k].laoId
          /\ normalizeText(conditionsDb[j].name) = normalizeText(conditionsDb[k].name)

\* The same for two inspections of one condition on the same date.
C11_InspectionsDuplicated ==
    /\ BothImportsDone
    /\ \E j, k \in 1..Len(inspectionsDb) :
          /\ j # k
          /\ inspectionsDb[j].conditionId = 2
          /\ inspectionsDb[k].conditionId = 2
          /\ inspectionsDb[j].inspectionDate = inspectionsDb[k].inspectionDate

(***************************************************************************)
(* Calls of the date utilities                                             *)
(***************************************************************************)

importVars ==
    <<branches, laos, conditions, inspections, laosDb, conditionsDb,
      inspectionsDb, nextId, rejectsDuplicates, clock, parsedItems, pc,
      summary, currentLaos, currentConditions, currentInspections, itemIndex,
      now, lao, condIndex, conditionId, sortedInspectionDates, dateIndex,
      calls, runNo, faults, other, manual>>

\* No import is going on and nothing is stored.
ImportUnused ==
    /\ branches = <<>>
    /\ laos = <<>>
    /\ conditions = <<>>
    /\ inspections = <<>>
    /\ laosDb = <<>>
    /\ conditionsDb = <<>>
    /\ inspectionsDb = <<>>
    /\ nextId = 1
    /\ rejectsDuplicates = FALSE
    /\ clock = 2
    /\ parsedItems = <<>>
    /\ pc = "idle"
    /\ summary = EmptySummary
    /\ currentLaos = <<>>
    /\ currentConditions = <<>>
    /\ currentInspections = <<>>
    /\ itemIndex = 0
    /\ now = 0
    /\ lao = NoRecord
    /\ condIndex = 0
    /\ conditionId = 0
    /\ sortedInspectionDates = <<>>
    /\ dateIndex = 0
    /\ calls = <<>>
    /\ runNo = 0
    /\ faults = 0
    /\ other = NoOtherRun
    /\ manual = Unused

MaxMonthsToAdd == 13

YearTexts ==
    {<<"2", "0", "2", "4">>,
     <<"2", "0", "2", "3">>,
     <<"2", "0", "0", "0">>,
     <<"1", "9", "0", "0">>,
     <<"0", "9", "9", "9">>,
     <<"0", "0", "5", "0">>,
     <<"2", "4">>,
     <<>>}
MonthTexts ==
    {<<"0", "1">>,
     <<"0", "2">>,
     <<"1", "2">>,
     <<"1">>,
     <<"1", "3">>,
     <<"0", "0">>,
     <<" ", "3">>,
     <<>>}
DayTexts ==
    {<<"0", "1">>,
     <<"1", "5">>,
     <<"2", "8">>,
     <<"2", "9">>,
     <<"3", "0">>,
     <<"3", "1">>,
     <<"5">>,
     <<"0", "0">>,
     <<"3", "2">>,
     <<"1", "a">>}

\* Strings that do not have three components, or have a component that is
\* not a number.
OddDateTexts ==
    {<<>>,
     <<"2", "0", "2", "4", "-", "0", "1">>,
     <<"2", "0", "2", "4", "-", "0", "1", "-", "1", "5", "-", "0", "1">>,
     <<"1", "5", "/", "0", "1", "/", "2", "0", "2", "4">>,
     <<"a", "b", "c">>,
     <<"-", "-">>,
     <<" ", "2", "0", "2", "4", "-", "0", "1", "-", "1", "5", " ">>,
     <<"2", "0", "2", "4", "-", "0", "1", "-", "1", "5", "\n">>}

DateTextPool ==
    {y \o <<"-">> \o m \o <<"-">> \o d : y \in YearTexts, m \in MonthTexts, d \in DayTexts}
        \cup OddDateTexts

InitDates ==
    /\ ImportUnused
    /\ blocks = Unused
    /\ projection = Unused
    /\ label = Unused
    /\ parser = Unused
    /\ \E value \in DateTextPool :
          dates = [pc |-> "start", value |-> value, monthsToAdd |-> 0,
                   parsed |-> NullDate, text |-> <<>>, shifted |-> NullDate]

\* const parsed = parseISODate(value)
CallParseISODate ==
    /\ dates.pc = "start"
    /\ LET parsed == parseISODate(dates.value)
       IN  dates' = [dates EXCEPT !.parsed = parsed,
                                  !.pc = IF parsed.null THEN "null" ELSE "parsed"]
    /\ UNCHANGED <<importVars, projection, label, parser, blocks>>

\* toISODate(parsed)
CallToISODate ==
    /\ dates.pc = "parsed"
    /\ dates' = [dates EXCEPT !.text = toISODate(dates.parsed), !.pc = "formatted"]
    /\ UNCHANGED <<importVars, projection, label, parser, blocks>>

\* addMonthsPreserveDay(parsed, n) for a whole number n >= 0
CallAddMonthsPreserveDay ==
    /\ dates.pc = "parsed"
    /\ \E n \in 0..MaxMonthsToAdd :
          dates' = [dates EXCEPT !.monthsToAdd = Months(n),
                                 !.shifted = addMonthsPreserveDay(dates.parsed, Months(n)),
                                 !.pc = "shifted"]
    /\ UNCHANGED <<importVars, projection, label, parser, blocks>>

NextDates ==
    \/ CallParseISODate
    \/ CallToISODate
    \/ CallAddMonthsPreserveDay

SpecDates == InitDates /\ [][NextDates]_vars

\* The calendar, stated without the Date arithmetic above.
IsLeapYear(year) == (year % 4 = 0 /\ year % 100 # 0) \/ year % 400 = 0
LastDayOfMonth(year, month) ==
    IF month = 2 THEN (IF IsLeapYear(year) THEN 29 ELSE 28)
    ELSE IF month \in {4, 6, 9, 11} THEN 30 ELSE 31

\* YYYY-MM-DD: four digits, two digits, two digits.
IsStrictISOText(value) ==
    /\ Len(value) = 10
    /\ value[5] = "-"
    /\ value[8] = "-"
    /\ \A k \in {1, 2, 3, 4, 6, 7, 9, 10} : IsDigit(value[k])

\* A strict text whose month and day exist in the calendar.
DenotesCalendarDay(value) ==
    /\ IsStrictISOText(value)
    /\ LET year == DecimalValue(SubSeq(value, 1, 4))
           month == DecimalValue(SubSeq(value, 6, 7))
           day == DecimalValue(SubSeq(value, 9, 10))
       IN  /\ month \in 1..12
           /\ day >= 1
           /\ day <= LastDayOfMonth(year, month)

\* C16. End-of-month clamp: addMonthsPreserveDay(date, n) for a whole n >= 0
\* is the day whose year and month lie n months after those of date and
\* whose day of the month is the smaller of date's day and the last day of
\* that month; 2024-01-31 + 1 is 2024-02-29 and 2023-01-31 + 1 is 2023-02-28.
C16_EndOfMonthClamp ==
    dates.pc = "shifted" =>
        LET from == CivilFromDays(dates.parsed.days)
            n == dates.monthsToAdd \div 2
            total == from.year * 12 + (from.month - 1) + n
            year == total \div 12
            month == (total % 12) + 1
            to == CivilFromDays(dates.shifted.days)
        IN  /\ to.year = year
            /\ to.month = month
            /\ to.day = Min(from.day, LastDayOfMonth(year, month))
            /\ (dates.value = <<"2", "0", "2", "4", "-", "0", "1", "-", "3", "1">> /\ n = 1
                    => toISODate(dates.shifted) = <<"2", "0", "2", "4", "-", "0", "2", "-", "2", "9">>)
            /\ (dates.value = <<"2", "0", "2", "3", "-", "0", "1", "-", "3", "1">> /\ n = 1
                    => toISODate(dates.shifted) = <<"2", "0", "2", "3", "-", "0", "2", "-", "2", "8">>)

\* A month was added to 31 January of a leap year and the day was clamped.
C16_Witness ==
    /\ dates.pc = "shifted"
    /\ dates.value = <<"2", "0", "2", "4", "-", "0", "1", "-", "3", "1">>
    /\ dates.monthsToAdd = Months(1)
    /\ toISODate(dates.shifted) = <<"2", "0", "2", "4", "-", "0", "2", "-", "2", "9">>

\* C17. parseISODate returns a date only for a text of the strict shape
\* YYYY-MM-DD and null for every other input.
C17_ParseISODateStrict ==
    dates.pc \in {"parsed", "null"} =>
        (~dates.parsed.null => IsStrictISOText(dates.value))

\* C18. Round trip: for a strict YYYY-MM-DD text s that denotes a day of the
\* calendar, toISODate(parseISODate(s)) = s.
C18_IsoRoundTrip ==
    dates.pc = "formatted" /\ DenotesCalendarDay(dates.value) =>
        dates.text = dates.value

(***************************************************************************)
(* Calls of projectInspectionDatesForYear                                  *)
(***************************************************************************)

\* Iterations of the while loop the model follows before it gives up.
MaxIterations == 30

AnchorTexts ==
    {<<>>,
     <<"a", "b", "c">>,
     <<"2", "0", "2", "3", "-", "0", "1", "-", "1", "5">>,
     <<"2", "0", "2", "4", "-", "0", "1", "-", "3", "1">>,
     <<"2", "0", "2", "4", "-", "0", "8", "-", "3", "1">>,
     <<"2", "0", "2", "5", "-", "0", "6", "-", "0", "1">>}
ValidityTexts ==
    {<<>>,
     <<"2", "0", "2", "4", "-", "0", "3", "-", "1", "5">>,
     <<"2", "0", "2", "4", "-", "1", "2", "-", "3", "1">>,
     <<"2", "0", "2", "5", "-", "0", "1", "-", "1", "5">>}
\* intervalMonths in halves: -1, 0, 0.5, 1, 1.5, 2, 3, 6, 12.
IntervalPool ==
    {-Months(1), Months(0), 1, Months(1), 3, Months(2), Months(3), Months(6),
     Months(12)}
TargetYears == {2000, 2023, 2024, 2025, 2030}

InitProjection ==
    /\ ImportUnused
    /\ blocks = Unused
    /\ dates = Unused
    /\ label = Unused
    /\ parser = Unused
    /\ \E anchorDateISO \in AnchorTexts, validityDateISO \in ValidityTexts,
          intervalMonths \in IntervalPool, year \in TargetYears :
          projection =
              [pc |-> "start", anchorDateISO |-> anchorDateISO,
               validityDateISO |-> validityDateISO,
               intervalMonths |-> intervalMonths, year |-> year,
               validity |-> NullDate, cursor |-> NullDate, dates |-> <<>>,
               iterations |-> 0]

\* Faulty variant: a candidate on the validity date itself is left out.
CursorBeforeValidity(cursor, validity) == getTime(cursor) < getTime(validity)

\* while (cursor.getTime() <= validity.getTime())
CursorWithinValidity(cursor, validity) == getTime(cursor) <= getTime(validity)

\* Lines 137-142: parse both dates, return [] or set the first candidate.
ProjectionEnter ==
    /\ projection.pc = "start"
    /\ LET anchor == parseISODate(projection.anchorDateISO)
           validity == parseISODate(projection.validityDateISO)
       IN  IF anchor.null \/ validity.null \/ projection.intervalMonths <= 0
           THEN projection' = [projection EXCEPT !.pc = "done"]
           ELSE projection' =
                    [projection EXCEPT
                        !.pc = "loop",
                        !.validity = validity,
                        !.cursor = addMonthsPreserveDay(anchor, projection.intervalMonths)]
    /\ UNCHANGED <<importVars, dates, label, parser, blocks>>

\* Lines 144-152: one iteration of the loop.
ProjectionIterate ==
    /\ projection.pc = "loop"
    /\ projection.iterations < MaxIterations
    /\ CursorWithinValidity(projection.cursor, projection.validity)
    /\ LET cursor == projection.cursor
           pushed == IF getFullYear(cursor) = projection.year
                     THEN Append(projection.dates, toISODate(cursor))
                     ELSE projection.dates
       IN  IF getFullYear(cursor) > projection.year
                /\ getTime(cursor) > getTime(projection.validity)
           THEN projection' = [projection EXCEPT
                                  !.dates = pushed,
                                  !.iterations = @ + 1,
                                  !.pc = "done"]
           ELSE projection' =
                    [projection EXCEPT
                        !.dates = pushed,
                        !.iterations = @ + 1,
                        !.cursor = addMonthsPreserveDay(cursor, projection.intervalMonths)]
    /\ UNCHANGED <<importVars, dates, label, parser, blocks>>

\* Line 154: the loop condition fails, return dates.
ProjectionReturn ==
    /\ projection.pc = "loop"
    /\ ~CursorWithinValidity(projection.cursor, projection.validity)
    /\ projection' = [projection EXCEPT !.pc = "done"]
    /\ UNCHANGED <<importVars, dates, label, parser, blocks>>

NextProjection ==
    \/ ProjectionEnter
    \/ ProjectionIterate
    \/ ProjectionReturn

SpecProjection == InitProjection /\ [][NextProjection]_vars

\* The candidate c_k of a call: c_0 is the anchor, c_k the result of
\* addMonthsPreserveDay on c_(k-1).
RECURSIVE Candidate(_)
Candidate(k) ==
    IF k = 0 THEN parseISODate(projection.anchorDateISO)
    ELSE LET previous == Candidate(k - 1)
         IN  IF previous.null THEN NullDate
             ELSE addMonthsPreserveDay(previous, projection.intervalMonths)

ProjectionInputsValid ==
    /\ ~parseISODate(projection.anchorDateISO).null
    /\ ~parseISODate(projection.validityDateISO).null
    /\ projection.intervalMonths > 0

\* Whole months from the month of the anchor to the month of the validity.
MonthsApart ==
    LET from == CivilFromDays(parseISODate(projection.anchorDateISO).days)
        to == CivilFromDays(parseISODate(projection.validityDateISO).days)
    IN  (to.year * 12 + to.month) - (from.year * 12 + from.month)

\* C14. For a valid anchor, a valid validity date and intervalMonths > 0 the
\* result lists, in strictly increasing order, exactly the candidates c_k,
\* k >= 1, that are not after the validity date and fall in the target
\* year; ("2023-01-15", "2025-01-15", 6, 2024) gives 2024-01-15, 2024-07-15.
C14_ProjectionResult ==
    projection.pc = "done" /\ ProjectionInputsValid =>
        LET result == projection.dates
            validity == parseISODate(projection.validityDateISO)
            wanted == {k \in 1..MaxIterations :
                          /\ getTime(Candidate(k)) <= getTime(validity)
                          /\ getFullYear(Candidate(k)) = projection.year}
        IN  /\ {result[i] : i \in 1..Len(result)}
                   = {toISODate(Candidate(k)) : k \in wanted}
            /\ \A i \in 1..(Len(result) - 1) :
                   getTime(parseISODate(result[i])) < getTime(parseISODate(result[i + 1]))
            /\ ((projection.anchorDateISO = <<"2", "0", "2", "3", "-", "0", "1", "-", "1", "5">>
                  /\ projection.validityDateISO = <<"2", "0", "2", "5", "-", "0", "1", "-", "1", "5">>
                  /\ projection.intervalMonths = Months(6)
                  /\ projection.year = 2024)
                    => result = <<<<"2", "0", "2", "4", "-", "0", "1", "-", "1", "5">>, <<"2", "0", "2", "4", "-", "0", "7", "-", "1", "5">>>>)

\* The example of the claim has returned its two dates.
C14_Witness ==
    /\ projection.pc = "done"
    /\ projection.anchorDateISO = <<"2", "0", "2", "3", "-", "0", "1", "-", "1", "5">>
    /\ projection.validityDateISO = <<"2", "0", "2", "5", "-", "0", "1", "-", "1", "5">>
    /\ projection.intervalMonths = Months(6)
    /\ projection.year = 2024
    /\ projection.dates = <<<<"2", "0", "2", "4", "-", "0", "1", "-", "1", "5">>, <<"2", "0", "2", "4", "-", "0", "7", "-", "1", "5">>>>

\* C15. The loop terminates for every anchor, validity date, target year and
\* intervalMonths > 0: every iteration moves the candidate at least a month
\* on, so there are never more iterations than months from the anchor to
\* the validity date; and with a missing or unparseable date or
\* intervalMonths <= 0 the result is empty without any iteration.
C15_ProjectionTerminates ==
    /\ ProjectionInputsValid /\ projection.iterations > 0 =>
           projection.iterations <= MonthsApart
    /\ projection.pc = "done" /\ ~ProjectionInputsValid =>
           projection.dates = <<>> /\ projection.iterations = 0

(***************************************************************************)
(* getFrequencyPresetFromLabel                                             *)
(***************************************************************************)

\* Whether the string has part at position pos.
HasAt(str, pos, part) ==
    /\ pos >= 1
    /\ pos + Len(part) - 1 <= Len(str)
    /\ SubSeq(str, pos, pos + Len(part) - 1) = part

\* The position after the longest run of digits / of white space that
\* starts at pos (pos itself when there is none).
RECURSIVE AfterDigits(_, _)
AfterDigits(str, pos) ==
    IF pos <= Len(str) /\ IsDigit(str[pos]) THEN AfterDigits(str, pos + 1) ELSE pos

RECURSIVE AfterWhitespace(_, _)
AfterWhitespace(str, pos) ==
    IF pos <= Len(str) /\ str[pos] \in Whitespace
    THEN AfterWhitespace(str, pos + 1)
    ELSE pos

\* Whether /(\d+)\s*(mes|meses|m)/ matches starting at pos: the greedy
\* (\d+) and \s* cannot give a character back, since what follows a digit
\* must not be a digit and what follows a blank must not be a blank.
EveryMonthsMatchesAt(str, pos) ==
    /\ pos <= Len(str)
    /\ IsDigit(str[pos])
    /\ LET unit == AfterWhitespace(str, AfterDigits(str, pos))
       IN  \/ HasAt(str, unit, <<"m", "e", "s">>)
           \/ HasAt(str, unit, <<"m", "e", "s", "e", "s">>)
           \/ HasAt(str, unit, <<"m">>)

\* normalized.match(/(\d+)\s*(mes|meses|m)/): the leftmost match, with its
\* first group, or null.
MatchEveryMonths(str) ==
    IF \E pos \in 1..Len(str) : EveryMonthsMatchesAt(str, pos)
    THEN LET pos == CHOOSE i \in 1..Len(str) :
                        /\ EveryMonthsMatchesAt(str, i)
                        /\ \A j \in 1..(i - 1) : ~EveryMonthsMatchesAt(str, j)
         IN  [null |-> FALSE, group1 |-> SubSeq(str, pos, AfterDigits(str, pos) - 1)]
    ELSE [null |-> TRUE, group1 |-> <<>>]

\* Faulty variant: bimestral is looked for before mensal is.
getFrequencyPresetBimestralFirst(value) ==
    LET normalized == normalizeText(value)
    IN  IF Includes(normalized, <<"b", "i", "m", "e", "s", "t", "r", "a", "l">>) THEN [preset |-> "bimestral"]
        ELSE IF Includes(normalized, <<"m", "e", "n", "s", "a", "l">>) THEN [preset |-> "mensal"]
        ELSE [preset |-> "anual"]

getFrequencyPresetFromLabel(value) ==
    LET custom(everyMonthsMatch, interval) ==
            IF ~everyMonthsMatch.null /\ ~interval.nan /\ interval.value > 0
            THEN [preset |-> "custom", customMonthsInterval |-> interval.value]
            ELSE [preset |-> "anual"]
        matched(everyMonthsMatch) ==
            custom(everyMonthsMatch, Number(everyMonthsMatch.group1))
        resolve(normalized) ==
            IF normalized = <<>> THEN [preset |-> "anual"]
            ELSE IF Includes(normalized, <<"m", "e", "n", "s", "a", "l">>) THEN [preset |-> "mensal"]
            ELSE IF Includes(normalized, <<"b", "i", "m", "e", "s", "t", "r", "a", "l">>) THEN [preset |-> "bimestral"]
            ELSE IF Includes(normalized, <<"t", "r", "i", "m", "e", "s", "t", "r", "a", "l">>) THEN [preset |-> "trimestral"]
            ELSE IF Includes(normalized, <<"s", "e", "m", "e", "s", "t", "r", "a", "l">>) THEN [preset |-> "semestral"]
            ELSE IF Includes(normalized, <<"a", "n", "u", "a", "l">>) THEN [preset |-> "anual"]
            ELSE matched(MatchEveryMonths(normalized))
    IN  resolve(normalizeText(value))

LabelPrefixes ==
    {<<>>,
     <<"V", "i", "s", "t", "o", "r", "i", "a", " ">>,
     <<"a", " ", "c", "a", "d", "a", " ">>}
LabelCores ==
    {<<>>,
     <<" ", " ">>,
     <<"M", "e", "n", "s", "a", "l">>,
     <<"B", "I", "M", "E", "S", "T", "R", "A", "L">>,
     <<"T", "r", "i", "m", "e", "s", "t", "r", "a", "l">>,
     <<"s", "e", "m", "e", "s", "t", "r", "a", "l">>,
     <<"A", "n", "u", "a", "l">>,
     <<"b", "i", "m", "e", "n", "s", "a", "l">>,
     <<"5", " ", "m", "e", "s", "e", "s">>,
     <<"5", "m", "e", "s", "e", "s">>,
     <<"1", "2", " ", "m">>,
     <<"0", " ", "m", "e", "s", "e", "s">>,
     <<"0", " ", "m", " ", "5", " ", "m">>,
     <<"1", "0", " ", "m", "e", "s">>,
     <<"0", "7", " ", " ", "M">>,
     <<"3", " ", "d", "i", "a", "s">>,
     <<"5">>,
     <<"q", "u", "i", "n", "z", "e", "n", "a", "l">>,
     <<"m", "e", "s">>,
     <<"2", " ", "x", " ", "3", " ", "m", "e^", "s">>,
     <<"M", "e^", "s", " ", "a", " ", "m", "e^", "s">>,
     <<"1", "0", "5", "m">>}
LabelSuffixes ==
    {<<>>,
     <<" ", "m", "e", "n", "s", "a", "l">>,
     <<" ", "e", " ", "a", "n", "u", "a", "l">>,
     <<" ", "2", " ", "m">>}

LabelPool ==
    {a \o b \o c : a \in LabelPrefixes, b \in LabelCores, c \in LabelSuffixes}

InitLabel ==
    /\ ImportUnused
    /\ blocks = Unused
    /\ dates = Unused
    /\ projection = Unused
    /\ parser = Unused
    /\ \E value \in LabelPool :
          label = [pc |-> "start", value |-> value, result |-> [preset |-> "anual"]]

ResolveFrequency ==
    /\ label.pc = "start"
    /\ label' = [label EXCEPT !.result = getFrequencyPresetFromLabel(label.value),
                              !.pc = "done"]
    /\ UNCHANGED <<importVars, dates, projection, parser, blocks>>

NextLabel == ResolveFrequency

SpecLabel == InitLabel /\ [][NextLabel]_vars

FrequencyKeywords ==
    <<<<"m", "e", "n", "s", "a", "l">>, <<"b", "i", "m", "e", "s", "t", "r", "a", "l">>, <<"t", "r", "i", "m", "e", "s", "t", "r", "a", "l">>, <<"s", "e", "m", "e", "s", "t", "r", "a", "l">>, <<"a", "n", "u", "a", "l">>>>
KeywordPresets == <<"mensal", "bimestral", "trimestral", "semestral", "anual">>

\* The whole numbers written in the string that are followed, after any
\* blanks, by m (which begins mes and meses as well): the positions where
\* their digits begin.
IntegerWithUnitAt(str) ==
    {i \in 1..Len(str) :
        /\ IsDigit(str[i])
        /\ i = 1 \/ ~IsDigit(str[i - 1])
        /\ \E j \in i..Len(str), k \in (i + 1)..Len(str) :
              /\ j < k
              /\ \A d \in i..j : IsDigit(str[d])
              /\ \A b \in (j + 1)..(k - 1) : str[b] \in Whitespace
              /\ str[k] = "m"}

\* C19. The result is the preset of the first of mensal, bimestral,
\* trimestral, semestral, anual that occurs in the normalized label; if none
\* occurs and the first "<integer> (mes|meses|m)" of the label has an
\* integer > 0, custom with that interval; in every other case, the empty
\* label included, anual. It is custom only with customMonthsInterval > 0.
C19_FrequencyLabelResolution ==
    label.pc = "done" =>
        LET normalized == normalizeText(label.value)
            found == {k \in 1..Len(FrequencyKeywords) :
                         Includes(normalized, FrequencyKeywords[k])}
            first == CHOOSE k \in found : \A other1 \in found : k <= other1
            numbers == IntegerWithUnitAt(normalized)
            at == CHOOSE i \in numbers : \A other2 \in numbers : i <= other2
            integer == DecimalValue(SubSeq(normalized, at, AfterDigits(normalized, at) - 1))
        IN  /\ label.result =
                   IF found # {} THEN [preset |-> KeywordPresets[first]]
                   ELSE IF numbers # {} /\ integer > 0
                        THEN [preset |-> "custom", customMonthsInterval |-> integer]
                        ELSE [preset |-> "anual"]
            /\ label.result.preset = "custom" => label.result.customMonthsInterval > 0
            /\ label.value = <<"V", "i", "s", "t", "o", "r", "i", "a", " ", "T", "r", "i", "m", "e", "s", "t", "r", "a", "l">> => label.result = [preset |-> "trimestral"]
            /\ label.value = <<"a", " ", "c", "a", "d", "a", " ", "5", " ", "m", "e", "s", "e", "s">>
                   => label.result = [preset |-> "custom", customMonthsInterval |-> 5]
            /\ label.value = <<>> => label.result = [preset |-> "anual"]

\* A label with both bimestral and mensal resolved to mensal, the earlier
\* keyword of the order.
C19_Witness ==
    /\ label.pc = "done"
    /\ Includes(normalizeText(label.value), <<"b", "i", "m", "e", "s", "t", "r", "a", "l">>)
    /\ Includes(normalizeText(label.value), <<"m", "e", "n", "s", "a", "l">>)
    /\ label.result = [preset |-> "mensal"]

\* A label without keyword resolved to a custom interval.
C19_CustomInterval ==
    /\ label.pc = "done"
    /\ label.value = <<"a", " ", "c", "a", "d", "a", " ", "5", " ", "m", "e", "s", "e", "s">>
    /\ label.result = [preset |-> "custom", customMonthsInterval |-> 5]

(***************************************************************************)
(* Properties of the condition update                                      *)
(***************************************************************************)

\* An updateCondition call of the import is awaited.
UpdateConditionPending == pc = "condCall" /\ PendingCall.op = "updateCondition"

\* The condition of the shadow copy that the parsed condition matches.
MatchedCondition ==
    FindCondition(currentConditions, lao.id, normalizeText(ParsedCond.name))

\* The non-empty dates among the existing lastInspectionDate, the parsed
\* lastInspectionDate and the parsed inspection dates.
DatesToMerge ==
    ((IF "lastInspectionDate" \in DOMAIN MatchedCondition
      THEN {MatchedCondition.lastInspectionDate} ELSE {})
        \cup {ParsedCond.lastInspectionDate}
        \cup Range(ParsedCond.inspections)) \ {0}

\* C20. When a parsed condition matches an existing condition, the record
\* passed to updateCondition has as lastInspectionDate the latest of the
\* existing lastInspectionDate, the parsed lastInspectionDate and the parsed
\* inspection dates (never earlier than the existing one), has the id and
\* the createdAt of the existing condition, and conditionUpdated grows by
\* exactly one when the call returns.
C20_LastInspectionMerge ==
    /\ [](UpdateConditionPending =>
            LET record == PendingCall.arg
            IN  /\ Found(MatchedCondition)
                /\ record.lastInspectionDate =
                       IF DatesToMerge = {} THEN 0
                       ELSE CHOOSE d \in DatesToMerge : \A e \in DatesToMerge : e <= d
                /\ "lastInspectionDate" \in DOMAIN MatchedCondition =>
                       record.lastInspectionDate >= MatchedCondition.lastInspectionDate
                /\ record.id = MatchedCondition.id
                /\ record.createdAt = MatchedCondition.createdAt)
    /\ [][UpdateConditionPending /\ pc' = "insp" =>
            /\ summary'.conditionUpdated = summary.conditionUpdated + 1
            /\ [summary' EXCEPT !.conditionUpdated = 0]
                   = [summary EXCEPT !.conditionUpdated = 0]]_vars

\* A condition whose lastInspectionDate is later than every date of the
\* parsed condition has been updated and has kept its lastInspectionDate.
C20_Witness ==
    /\ pc = "insp"
    /\ PendingCall.op = "updateCondition"
    /\ PendingCall.status = "ok"
    /\ summary.conditionUpdated >= 1
    /\ ParsedCond.inspections # <<>>
    /\ \A d \in Range(ParsedCond.inspections) : d < PendingCall.arg.lastInspectionDate
    /\ ParsedCond.lastInspectionDate < PendingCall.arg.lastInspectionDate
    /\ \E n \in 1..Len(conditionsDb) :
          /\ conditionsDb[n].id = PendingCall.arg.id
          /\ conditionsDb[n].lastInspectionDate = PendingCall.arg.lastInspectionDate

(***************************************************************************)
(* The workbook parser (ImportLaoWorkbookModal)                            *)
(*                                                                         *)
(* A workbook is what XLSX.read and sheet_to_json({header: 1, defval: ''}) *)
(* give: the sheet names in order and, for each, its rows, a row being a   *)
(* sequence of cells.  A cell is empty (''), a string, a number or a Date. *)
(* The dates the parser returns are of the years 1000..9999, so that an    *)
(* inspection date goes on being the number YYYYMMDD; issueDate and        *)
(* validityDate, which may be any text of the sheet, are texts.  An        *)
(* optional text that is undefined is the empty text, and a message pushed *)
(* to parserErrors is a record of its kind and of the text it quotes.      *)
(***************************************************************************)

EmptyCell == [type |-> "empty"]
TextCell(text) == [type |-> "string", text |-> text]
NumberCell(value) == [type |-> "number", value |-> value]
DateCell(year, month, day) == [type |-> "date", date |-> NewDate(year, month - 1, day)]

\* row[index] for a 0-based index: undefined beyond the row, taken as ''.
CellAt(row, index) == IF index + 1 <= Len(row) THEN row[index + 1] ELSE EmptyCell

\* !value
IsFalsyCell(value) ==
    \/ value.type = "empty"
    \/ value.type = "string" /\ value.text = <<>>
    \/ value.type = "number" /\ value.value = 0

\* String(value ?? ''). The text of a Date is that of Date.prototype.toString
\* for the midnight that starts the day, in a run whose time zone is UTC:
\* "Wed Dec 31 2025 00:00:00 GMT+0000 (Coordinated Universal Time)"; in
\* another zone the text ends with the offset and the name of that zone.
CellString(value) ==
    LET dayNames ==
                <<<<"S", "u", "n">>, <<"M", "o", "n">>, <<"T", "u", "e">>, <<"W", "e", "d">>,
                  <<"T", "h", "u">>, <<"F", "r", "i">>, <<"S", "a", "t">>>>
        monthNames ==
                <<<<"J", "a", "n">>, <<"F", "e", "b">>, <<"M", "a", "r">>, <<"A", "p", "r">>,
                  <<"M", "a", "y">>, <<"J", "u", "n">>, <<"J", "u", "l">>, <<"A", "u", "g">>,
                  <<"S", "e", "p">>, <<"O", "c", "t">>, <<"N", "o", "v">>, <<"D", "e", "c">>>>
        dateText(civil, weekDay) ==
            dayNames[weekDay + 1] \o <<" ">> \o monthNames[civil.month] \o <<" ">>
                \o PadStart(String(civil.day), 2, "0") \o <<" ">>
                \o PadStart(String(civil.year), 4, "0")
                \o <<" ", "0", "0", ":", "0", "0", ":", "0", "0", " ", "G", "M", "T", "+",
                     "0", "0", "0", "0", " ", "(", "C", "o", "o", "r">>
                \o <<"d", "i", "n", "a", "t", "e", "d", " ", "U", "n", "i", "v", "e", "r",
                     "s", "a", "l", " ", "T", "i", "m", "e", ")">>
    IN  CASE value.type = "empty" -> <<>>
          [] value.type = "string" -> value.text
          [] value.type = "number" -> String(value.value)
          [] value.type = "date" ->
                 dateText(CivilFromDays(value.date.days), (value.date.days + 4) % 7)

\* new Date(Date.UTC(1899, 11, 30))
ExcelEpoch == DaysFromCivil(1899, 12, 30)

AllDigits(str) == \A k \in 1..Len(str) : IsDigit(str[k])

\* trimmed.match(/^(\d{4})-(\d{2})-(\d{2})$/)
IsoMatch(trimmed) ==
    LET matches(parts) ==
            /\ Len(parts) = 3
            /\ Len(parts[1]) = 4 /\ AllDigits(parts[1])
            /\ Len(parts[2]) = 2 /\ AllDigits(parts[2])
            /\ Len(parts[3]) = 2 /\ AllDigits(parts[3])
    IN  matches(Split(trimmed, "-"))

\* trimmed.match(/^(\d{1,2})\/(\d{1,2})\/(\d{4})$/)
BrMatch(trimmed) ==
    LET matches(parts) ==
            /\ Len(parts) = 3
            /\ Len(parts[1]) \in {1, 2} /\ AllDigits(parts[1])
            /\ Len(parts[2]) \in {1, 2} /\ AllDigits(parts[2])
            /\ Len(parts[3]) = 4 /\ AllDigits(parts[3])
    IN  matches(Split(trimmed, "/"))

\* parseWorkbookDate(value): the ISO text, or the empty text for null.  A
\* number is a whole count of days since the Excel epoch.
parseWorkbookDate(value) ==
    LET ofSerial(parsed) ==
            toISODate(NewDate(parsed.year, parsed.month - 1, parsed.day))
        ofBr(day, month, year) ==
            IF day > 0 /\ day <= 31 /\ month > 0 /\ month <= 12
            THEN String(year) \o <<"-">>
                     \o PadStart(String(month), 2, "0") \o <<"-">>
                     \o PadStart(String(day), 2, "0")
            ELSE <<>>
        ofParts(parts) ==
            ofBr(Number(parts[1]).value, Number(parts[2]).value,
                 Number(parts[3]).value)
        ofText(trimmed) ==
            IF trimmed = <<>> THEN <<>>
            ELSE IF IsoMatch(trimmed) THEN trimmed
            ELSE IF BrMatch(trimmed) THEN ofParts(Split(trimmed, "/"))
            ELSE <<>>
    IN  IF IsFalsyCell(value) THEN <<>>
        ELSE IF value.type = "date" THEN toISODate(value.date)
        ELSE IF value.type = "number"
             THEN ofSerial(CivilFromDays(ExcelEpoch + value.value))
        ELSE ofText(Trim(value.text))

\* The number YYYYMMDD of an ISO text of ten characters; 0 for the empty text.
IsoNumber(text) ==
    IF text = <<>> THEN 0
    ELSE ISO(DecimalValue(SubSeq(text, 1, 4)), DecimalValue(SubSeq(text, 6, 7)),
             DecimalValue(SubSeq(text, 9, 10)))

IGNORED_SHEETS == {<<"c", "a", "p", "a">>, <<"l", "a", "i">>, <<"c", "r", "o", "n", "o", "g", "r", "a", "m", "a">>, <<"p", "l", "a", "n", "1">>}

\* value.split('\n').map(item => item.trim()).filter(Boolean)
TrimmedLines(value) ==
    LET trimmed(lines) ==
            SelectSeq([k \in 1..Len(lines) |-> Trim(lines[k])], LAMBDA line : line # <<>>)
    IN  trimmed(Split(value, "\n"))

extractLaoNumber(value) ==
    LET first(lines) == IF Len(lines) = 0 THEN Trim(value) ELSE lines[1]
    IN  first(TrimmedLines(value))

\* lines.join(' ')
RECURSIVE Join(_, _)
Join(lines, separator) ==
    IF lines = <<>> THEN <<>>
    ELSE IF Len(lines) = 1 THEN lines[1]
    ELSE lines[1] \o separator \o Join(Tail(lines), separator)

\* str.replace(part, ''): the first occurrence of part is taken out.
RemoveFirst(str, part) ==
    IF Includes(str, part)
    THEN LET at == CHOOSE k \in 1..(Len(str) - Len(part) + 1) :
                       /\ HasAt(str, k, part)
                       /\ \A j \in 1..(k - 1) : ~HasAt(str, j, part)
         IN  SubSeq(str, 1, at - 1) \o SubSeq(str, at + Len(part), Len(str))
    ELSE str

extractEmpreendimento(value) ==
    LET withoutNumber(first) == Trim(RemoveFirst(first, extractLaoNumber(first)))
        ofLines(lines) ==
            IF Len(lines) > 1 THEN Join(Tail(lines), <<" ">>)
            ELSE withoutNumber(IF Len(lines) > 0 THEN lines[1] ELSE <<>>)
    IN  ofLines(TrimmedLines(value))

\* str.replace(/\n+/g, ' ')
RECURSIVE ReplaceLineBreaks(_)
ReplaceLineBreaks(str) ==
    IF str = <<>> THEN <<>>
    ELSE IF Head(str) = "\n"
         THEN LET rest == Tail(str)
              IN  IF rest # <<>> /\ Head(rest) = "\n" THEN ReplaceLineBreaks(rest)
                  ELSE <<" ">> \o ReplaceLineBreaks(rest)
         ELSE <<Head(str)>> \o ReplaceLineBreaks(Tail(str))

\* a || b for texts
OrElse(a, b) == IF a # <<>> THEN a ELSE b

\* mergeDetailBlocks: the loop over addition, then the renumbering.
RECURSIVE MergeDetailLoop(_, _)
MergeDetailLoop(merged, addition) ==
    IF addition = <<>> THEN merged
    ELSE LET detail == Head(addition)
             exists == \E k \in 1..Len(merged) :
                          /\ normalizeText(merged[k].key) = normalizeText(detail.key)
                          /\ normalizeText(merged[k].value) = normalizeText(detail.value)
             pushed == IF exists THEN merged
                       ELSE Append(merged,
                                [detail EXCEPT !.id = detail.id \o <<"-">> \o String(Len(merged)),
                                               !.order = Len(merged)])
         IN  CHOOSE result \in {MergeDetailLoop(next, Tail(addition)) : next \in {pushed}} :
                 TRUE

\* Faulty variant: the final renumbering of the order fields is left out.
mergeDetailBlocksNotRenumbered(base, addition) == MergeDetailLoop(base, addition)

mergeDetailBlocks(base, addition) ==
    CHOOSE result \in {[k \in 1..Len(merged) |-> [merged[k] EXCEPT !.order = k - 1]] :
                          merged \in {MergeDetailLoop(base, addition)}} : TRUE

\* Faulty variant: the condition of a row is appended whatever its name.
mergeConditionAppending(target, nextCondition) == Append(target, nextCondition)

\* mergeCondition(target, nextCondition)
mergeCondition(target, nextCondition) ==
    LET merged(current, mergedInspections) ==
            [current EXCEPT
                !.frequencyPreset =
                    IF nextCondition.frequencyPreset # ""
                    THEN nextCondition.frequencyPreset
                    ELSE current.frequencyPreset,
                !.customMonthsInterval =
                    IF nextCondition.customMonthsInterval # 0
                    THEN nextCondition.customMonthsInterval
                    ELSE current.customMonthsInterval,
                !.inspections = mergedInspections,
                !.lastInspectionDate = maxDateISO(mergedInspections),
                !.notes = IF current.notes # "" THEN current.notes
                          ELSE nextCondition.notes]
        mergeAt(index) ==
            IF index = 0 THEN Append(target, nextCondition)
            ELSE [target EXCEPT ![index] =
                     merged(@, uniqueSortedDates(@.inspections
                                                     \o nextCondition.inspections))]
    IN  mergeAt(FindIndex([k \in 1..Len(target) |->
                    normalizeText(target[k].name) = normalizeText(nextCondition.name)]))

\* The locals of the detail pass for one sheet, before its rows are read.
NoDetailFields ==
    [empreendimento |-> <<>>, laoNumber |-> <<>>, processNumber |-> <<>>,
     fcei |-> <<>>, codam |-> <<>>, issueDate |-> <<>>, validityDate |-> <<>>,
     details |-> <<>>]

\* The callback of rows.forEach, for the row at the 0-based index.
ScanRow(sheetName, row, index, fields) ==
    LET scan(keyRaw, valueString, key, parsedDate) ==
            IF keyRaw = <<>> THEN fields
            ELSE IF key = <<"e", "m", "p", "r", "e", "e", "n", "d", "i", "m", "e", "n", "t", "o">>
                 THEN [fields EXCEPT !.empreendimento = valueString]
            ELSE IF key = <<"p", "r", "o", "c", "e", "s", "s", "o">> THEN [fields EXCEPT !.processNumber = valueString]
            ELSE IF key = <<"f", "c", "e", "i">> THEN [fields EXCEPT !.fcei = valueString]
            ELSE IF key = <<"c", "o", "d", "a", "m">> THEN [fields EXCEPT !.codam = valueString]
            ELSE IF Includes(key, <<"l", "i", "c", "e", "n", "c", "a">>) THEN [fields EXCEPT !.laoNumber = valueString]
            ELSE IF Includes(key, <<"e", "m", "i", "s", "s", "a", "o">>)
                 THEN [fields EXCEPT !.issueDate = OrElse(parsedDate, valueString)]
            ELSE IF key = <<"v", "a", "l", "i", "d", "a", "d", "e">>
                 THEN [fields EXCEPT !.validityDate = OrElse(parsedDate, valueString)]
            ELSE IF valueString = <<>> THEN fields
            ELSE [fields EXCEPT !.details =
                     Append(@, [id |-> <<"d", "e", "t", "a", "i", "l", "-">> \o normalizeText(sheetName)
                                          \o <<"-">> \o String(index),
                                key |-> keyRaw, value |-> valueString,
                                order |-> Len(fields.details)])]
        ofCells(keyRaw, valueRaw) ==
            scan(keyRaw, Trim(CellString(valueRaw)), normalizeText(keyRaw),
                 parseWorkbookDate(valueRaw))
    IN  ofCells(Trim(CellString(CellAt(row, 0))), CellAt(row, 1))

RECURSIVE ScanRows(_, _, _, _)
ScanRows(sheetName, rows, index, fields) ==
    IF index >= Len(rows) THEN fields
    ELSE CHOOSE result \in
             {ScanRows(sheetName, rows, index + 1, next) :
                 next \in {ScanRow(sheetName, rows[index + 1], index, fields)}} : TRUE

\* Lines 209-224: the record of a sheet whose rows gave the fields.
DetailRecord(sheetName, fields) ==
    LET safeLaoNumber ==
            OrElse(fields.laoNumber, <<"L", "A", "O", " ">> \o sheetName)
        safeEmpreendimento == OrElse(fields.empreendimento, sheetName)
    IN  [importKey |-> getImportKey(safeLaoNumber, safeEmpreendimento),
         laoNumber |-> safeLaoNumber,
         title |-> Trim(safeLaoNumber \o <<" ">> \o safeEmpreendimento),
         empreendimento |-> safeEmpreendimento,
         processNumber |-> fields.processNumber,
         fcei |-> fields.fcei,
         codam |-> fields.codam,
         issueDate |-> fields.issueDate,
         validityDate |-> fields.validityDate,
         details |-> fields.details,
         conditions |-> <<>>]

\* Lines 145-225: the detail pass over the sheets, in the order of SheetNames.
RECURSIVE DetailPass(_)
DetailPass(sheets) ==
    IF sheets = <<>> THEN <<>>
    ELSE LET sheetName == Head(sheets).name
             rows == Head(sheets).rows
             pushed(fields) ==
                 IF normalizeText(sheetName) \in IGNORED_SHEETS \/ Len(rows) = 0
                 THEN <<>>
                 ELSE IF /\ fields.empreendimento = <<>>
                         /\ fields.laoNumber = <<>>
                         /\ Len(fields.details) = 0
                      THEN <<>>
                      ELSE <<DetailRecord(sheetName, fields)>>
         IN  (CHOOSE result \in
                  {pushed(fields) : fields \in {ScanRows(sheetName, rows, 0, NoDetailFields)}} :
                  TRUE)
             \o DetailPass(Tail(sheets))

\* workbook.Sheets.Capa || workbook.Sheets.capa: the position of the sheet,
\* 0 when there is none.
CapaSheet(workbook) ==
    LET upper == FindIndex([k \in 1..Len(workbook) |-> workbook[k].name = <<"C", "a", "p", "a">>])
        lower == FindIndex([k \in 1..Len(workbook) |-> workbook[k].name = <<"c", "a", "p", "a">>])
    IN  IF upper # 0 THEN upper ELSE lower

\* map.get(key): the position of the entry in the order of insertion, or 0.
MapIndex(map, key) == FindIndex([k \in 1..Len(map) |-> map[k].importKey = key])

\* The dates of columns 3..14 of a cover row.
RowInspections(row) ==
    LET numbers(given) == [k \in 1..Len(given) |-> IsoNumber(given[k])]
        filtered(parsed) == numbers(SelectSeq(parsed, LAMBDA text : text # <<>>))
    IN  filtered([k \in 1..12 |-> parseWorkbookDate(CellAt(row, k + 2))])

\* Lines 274-288: the condition of a cover row.
RowCondition(row) ==
    LET condition(colB, resolvedFrequency, uniqueDates) ==
            ParsedCondition(colB, resolvedFrequency.preset,
                            IF "customMonthsInterval" \in DOMAIN resolvedFrequency
                            THEN resolvedFrequency.customMonthsInterval ELSE 0,
                            uniqueDates, maxDateISO(uniqueDates))
    IN  condition(Trim(CellString(CellAt(row, 1))),
                  getFrequencyPresetFromLabel(Trim(CellString(CellAt(row, 2)))),
                  uniqueSortedDates(RowInspections(row)))

NoCoverState ==
    [map |-> <<>>, currentLaoTitle |-> <<>>, currentLaoNumber |-> <<>>,
     currentEmpreendimento |-> <<>>]

\* Lines 246-291: one row of the cover sheet.
CoverRow(row, cover) ==
    LET titleRow(colA, number, empreendimento, key) ==
            [map |-> IF MapIndex(cover.map, key) # 0 THEN cover.map
                     ELSE Append(cover.map,
                              [importKey |-> key,
                               laoNumber |-> number,
                               title |-> Trim(ReplaceLineBreaks(colA)),
                               empreendimento |-> empreendimento,
                               processNumber |-> <<>>, fcei |-> <<>>,
                               codam |-> <<>>, issueDate |-> <<>>,
                               validityDate |-> <<>>,
                               details |-> <<>>, conditions |-> <<>>]),
             currentLaoTitle |-> colA,
             currentLaoNumber |-> number,
             currentEmpreendimento |-> empreendimento]
        titled(colA, number, empreendimento) ==
            titleRow(colA, number, empreendimento, getImportKey(number, empreendimento))
        numbered(colA, number) ==
            titled(colA, number, OrElse(extractEmpreendimento(colA), number))
        conditionRow(at) ==
            IF at = 0 THEN cover
            ELSE [cover EXCEPT !.map[at].conditions =
                     mergeCondition(@, RowCondition(row))]
        ofCells(colA, colB) ==
            IF colA # <<>> /\ Includes(normalizeText(colA), <<"l", "a", "o">>)
            THEN numbered(colA, extractLaoNumber(colA))
            ELSE IF colB = <<>> \/ cover.currentLaoNumber = <<>> THEN cover
            ELSE conditionRow(MapIndex(cover.map,
                     getImportKey(cover.currentLaoNumber, cover.currentEmpreendimento)))
    IN  ofCells(Trim(CellString(CellAt(row, 0))), Trim(CellString(CellAt(row, 1))))

\* for (let rowIndex = 1; rowIndex < capaRows.length; rowIndex += 1)
RECURSIVE CoverPass(_, _, _)
CoverPass(capaRows, rowIndex, cover) ==
    IF rowIndex >= Len(capaRows) THEN cover
    ELSE CHOOSE result \in
             {CoverPass(capaRows, rowIndex + 1, next) :
                 next \in {CoverRow(capaRows[rowIndex + 1], cover)}} : TRUE

\* Faulty variant: the values of the detail record replace those of the item.
MergeDetailItemOverwriting(target, detailItem) ==
    [target EXCEPT
        !.processNumber = OrElse(detailItem.processNumber, @),
        !.fcei = OrElse(detailItem.fcei, @),
        !.codam = OrElse(detailItem.codam, @),
        !.issueDate = OrElse(detailItem.issueDate, @),
        !.validityDate = OrElse(detailItem.validityDate, @),
        !.details = mergeDetailBlocks(@, detailItem.details)]

\* The assignments of lines 299-304 and 314-324.
MergeDetailItem(target, detailItem) ==
    [target EXCEPT
        !.processNumber = OrElse(@, detailItem.processNumber),
        !.fcei = OrElse(@, detailItem.fcei),
        !.codam = OrElse(@, detailItem.codam),
        !.issueDate = OrElse(@, detailItem.issueDate),
        !.validityDate = OrElse(@, detailItem.validityDate),
        !.details = mergeDetailBlocks(@, detailItem.details)]

\* Lines 296-328: the detail records are merged into the entries of the
\* map; capaItems are its first capaCount entries.
RECURSIVE MergePass(_, _, _)
MergePass(map, capaCount, detailRecords) ==
    IF detailRecords = <<>> THEN map
    ELSE LET detailItem == Head(detailRecords)
             exact == MapIndex(map, detailItem.importKey)
             byEmpreendimento ==
                 FindIndex([k \in 1..capaCount |->
                     normalizeText(map[k].empreendimento)
                         = normalizeText(detailItem.empreendimento)])
             merged ==
                 IF exact # 0
                 THEN [map EXCEPT ![exact] = MergeDetailItem(@, detailItem)]
                 ELSE IF byEmpreendimento # 0
                      THEN [map EXCEPT ![byEmpreendimento] =
                               MergeDetailItem(@, detailItem)]
                      ELSE Append(map, detailItem)
         IN  CHOOSE result \in
                 {MergePass(next, capaCount, Tail(detailRecords)) : next \in {merged}} :
                 TRUE

\* Faulty variant: an item without validityDate is kept.
FilterMessageWithoutValidity(item) ==
    IF item.laoNumber = <<>> \/ item.empreendimento = <<>>
    THEN <<[kind |-> "missing LAO/Empreendimento", text |-> item.title]>>
    ELSE <<>>

\* The message the filter pushes for an item, none for an item it keeps.
FilterMessage(item) ==
    IF item.laoNumber = <<>> \/ item.empreendimento = <<>>
    THEN <<[kind |-> "missing LAO/Empreendimento", text |-> item.title]>>
    ELSE IF item.validityDate = <<>>
         THEN <<[kind |-> "sem validade", text |-> item.laoNumber]>>
         ELSE <<>>

RECURSIVE FilterMessages(_)
FilterMessages(values) ==
    IF values = <<>> THEN <<>>
    ELSE FilterMessage(Head(values)) \o FilterMessages(Tail(values))

\* Array.from(map.values()) at line 330, for a workbook with a cover sheet.
MapValues(workbook) ==
    CHOOSE result \in
        {MergePass(cover.map, Len(cover.map), detailRecords) :
            cover \in {CoverPass(workbook[CapaSheet(workbook)].rows, 1, NoCoverState)},
            detailRecords \in {DetailPass(workbook)}} : TRUE

\* Faulty variant: the early return for a missing cover sheet hands back the
\* message without the records of the detail pass.
parseWorkbookWithoutDetailRecords(workbook) ==
    LET capaSheet == CapaSheet(workbook)
    IN  IF capaSheet = 0
        THEN [items |-> <<>>,
              parserErrors |-> <<[kind |-> "Aba Capa", text |-> <<>>]>>]
        ELSE CHOOSE result \in
                 {[items |-> SelectSeq(values, LAMBDA item : FilterMessage(item) = <<>>),
                   parserErrors |-> FilterMessages(values)] :
                     values \in {MapValues(workbook)}} : TRUE

\* Lines 138-347: parseWorkbook, after XLSX.read.
parseWorkbook(workbook) ==
    LET detailRecords == DetailPass(workbook)
        capaSheet == CapaSheet(workbook)
    IN  IF capaSheet = 0
        THEN [items |-> detailRecords,
              parserErrors |-> <<[kind |-> "Aba Capa", text |-> <<>>]>>]
        ELSE CHOOSE result \in
                 {[items |-> SelectSeq(values, LAMBDA item : FilterMessage(item) = <<>>),
                   parserErrors |-> FilterMessages(values)] :
                     values \in {MapValues(workbook)}} : TRUE

\* Sheets with key rows in column A and values in column B.
DetailSheets ==
    <<[name |-> <<"S", "e", "d", "e">>,
        rows |-> <<<<TextCell(<<"E", "m", "p", "r", "e", "e", "n", "d", "i", "m", "e", "n", "t", "o">>), TextCell(<<"S", "e", "d", "e">>)>>,
             <<TextCell(<<"L", "i", "c", "e", "n", "c^", "a", " ", "(", "L", "A", "O", ")">>), TextCell(<<"L", "A", "O", " ", "1", "/", "2", "0", "2", "4">>)>>,
             <<TextCell(<<"V", "a", "l", "i", "d", "a", "d", "e">>), DateCell(2025, 12, 31)>>,
             <<TextCell(<<"P", "r", "o", "c", "e", "s", "s", "o">>), TextCell(<<"P", "-", "1">>)>>,
             <<TextCell(<<"O", "b", "s">>), TextCell(<<"x">>)>>>>],
      [name |-> <<"F", "i", "l", "i", "a", "l">>,
        rows |-> <<<<TextCell(<<"E", "m", "p", "r", "e", "e", "n", "d", "i", "m", "e", "n", "t", "o">>), TextCell(<<"F", "i", "l", "i", "a", "l">>)>>,
             <<TextCell(<<"L", "I", "C", "E", "N", "C^", "A">>), TextCell(<<" ", "L", "A", "O", " ", "2", "/", "2", "0", "2", "4", " ">>)>>,
             <<TextCell(<<"E", "m", "i", "s", "s", "a^", "o">>), TextCell(<<"1", "5", "/", "0", "1", "/", "2", "0", "2", "4">>)>>,
             <<TextCell(<<"V", "a", "l", "i", "d", "a", "d", "e">>), EmptyCell>>>>],
      [name |-> <<"P", "o", "s", "t", "o">>,
        rows |-> <<<<EmptyCell, TextCell(<<"s", "o", "l", "t", "o">>)>>,
             <<TextCell(<<"O", "b", "s">>), TextCell(<<"n", "o", "t", "a">>)>>,
             <<TextCell(<<"C", "o", "d", "a", "m">>), NumberCell(7)>>>>],
      [name |-> <<"P", "l", "a", "n", "1">>,
        rows |-> <<<<TextCell(<<"E", "m", "p", "r", "e", "e", "n", "d", "i", "m", "e", "n", "t", "o">>), TextCell(<<"R", "a", "s", "c", "u", "n", "h", "o">>)>>,
             <<TextCell(<<"V", "a", "l", "i", "d", "a", "d", "e">>), TextCell(<<"2", "0", "3", "0", "-", "0", "1", "-", "0", "1">>)>>>>],
      [name |-> <<"V", "a", "z", "i", "a">>,
        rows |-> <<<<TextCell(<<"O", "b", "s">>), EmptyCell>>,
             <<EmptyCell, EmptyCell>>>>],
      [name |-> <<"M", "a", "t", "r", "i", "z">>,
        rows |-> <<<<TextCell(<<"L", "i", "c", "e", "n", "c^", "a">>), TextCell(<<"l", "a", "o", " ", "1", "/", "2", "0", "2", "4">>)>>,
             <<TextCell(<<"E", "M", "P", "R", "E", "E", "N", "D", "I", "M", "E", "N", "T", "O", " ">>), TextCell(<<"S", "E", "D", "E">>)>>,
             <<TextCell(<<"V", "a", "l", "i", "d", "a", "d", "e">>), TextCell(<<"3", "1", "/", "1", "2", "/", "2", "0", "2", "6">>)>>,
             <<TextCell(<<"O", "b", "s">>), TextCell(<<" ", "X", " ">>)>>,
             <<TextCell(<<"F", "C", "E", "I">>), TextCell(<<"F", "-", "9">>)>>>>]>>

\* Rows of a cover sheet: a header row, then title rows (column A) and
\* condition rows (name, frequency, dates).  In the second and in the last
\* list two condition rows have the same normalized name.
CoverRows ==
    <<<<<<TextCell(<<"L", "A", "O">>), TextCell(<<"C", "o", "n", "d", "i", "c", "i", "o", "n", "a", "n", "t", "e">>), TextCell(<<"F", "r", "e", "q", "u", "e", "n", "c", "i", "a">>)>>>>,
      <<<<TextCell(<<"L", "A", "O">>), TextCell(<<"C", "o", "n", "d", "i", "c", "i", "o", "n", "a", "n", "t", "e">>), TextCell(<<"F", "r", "e", "q", "u", "e", "n", "c", "i", "a">>)>>,
           <<TextCell(<<"L", "A", "O", " ", "1", "/", "2", "0", "2", "4", "\n", "S", "e", "d", "e">>), EmptyCell, EmptyCell>>,
           <<EmptyCell, TextCell(<<"M", "o", "n", "i", "t", "o", "r", "a", "m", "e", "n", "t", "o">>), TextCell(<<"M", "e", "n", "s", "a", "l">>), DateCell(2024, 3, 5), TextCell(<<"1", "5", "/", "0", "1", "/", "2", "0", "2", "4">>), EmptyCell, TextCell(<<"2", "0", "2", "4", "-", "0", "3", "-", "0", "5">>)>>,
           <<EmptyCell, TextCell(<<"m", "o", "n", "i", "t", "o", "r", "a", "m", "e", "n", "t", "o", " ">>), TextCell(<<"a", " ", "c", "a", "d", "a", " ", "5", " ", "m", "e", "s", "e", "s">>), NumberCell(45000)>>>>,
      <<<<TextCell(<<"L", "A", "O">>), TextCell(<<"C", "o", "n", "d", "i", "c", "i", "o", "n", "a", "n", "t", "e">>), TextCell(<<"F", "r", "e", "q", "u", "e", "n", "c", "i", "a">>)>>,
           <<TextCell(<<"L", "A", "O", " ", "9", "/", "2", "0", "2", "4", "\n", "O", "u", "t", "r", "a">>), EmptyCell, EmptyCell>>,
           <<EmptyCell, TextCell(<<"R", "u", "i", "d", "o">>), TextCell(<<"T", "r", "i", "m", "e", "s", "t", "r", "a", "l">>)>>>>,
      <<<<TextCell(<<"L", "A", "O">>), TextCell(<<"C", "o", "n", "d", "i", "c", "i", "o", "n", "a", "n", "t", "e">>), TextCell(<<"F", "r", "e", "q", "u", "e", "n", "c", "i", "a">>)>>,
           <<EmptyCell, TextCell(<<"S", "e", "m", " ", "L", "A", "O">>), TextCell(<<"A", "n", "u", "a", "l">>)>>,
           <<TextCell(<<"L", "A", "O", " ", "7", "/", "2", "0", "2", "0", "\n", " ", "S", "e", "d", "e", " ", "\n">>), EmptyCell, EmptyCell>>,
           <<TextCell(<<"L", "A", "O", " ", "2", "/", "2", "0", "2", "4", "\n", "F", "i", "l", "i", "a", "l">>), TextCell(<<"x">>), EmptyCell>>,
           <<EmptyCell, TextCell(<<"E", "f", "l", "u", "e", "n", "t", "e", "s">>), EmptyCell, TextCell(<<"1", "0", "/", "0", "2", "/", "2", "0", "2", "4">>)>>>>,
      <<<<TextCell(<<"L", "A", "O">>), TextCell(<<"C", "o", "n", "d", "i", "c", "i", "o", "n", "a", "n", "t", "e">>), TextCell(<<"F", "r", "e", "q", "u", "e", "n", "c", "i", "a">>)>>,
           <<TextCell(<<"L", "A", "O", " ", "1", "/", "2", "0", "2", "4", "\n", "S", "e", "d", "e">>), EmptyCell, EmptyCell>>,
           <<EmptyCell, TextCell(<<"R", "u", "i", "d", "o">>), TextCell(<<"a", " ", "c", "a", "d", "a", " ", "5", " ", "m", "e", "s", "e", "s">>), TextCell(<<"1", "0", "/", "0", "2", "/", "2", "0", "2", "4">>), TextCell(<<"2", "0", "2", "4", "-", "0", "3", "-", "0", "5">>)>>,
           <<EmptyCell, TextCell(<<" ", "R", "U", "I", "D", "O">>), TextCell(<<"M", "e", "n", "s", "a", "l">>), DateCell(2024, 1, 15), TextCell(<<"1", "0", "/", "0", "2", "/", "2", "0", "2", "4">>)>>>>>>

CoverNames == {<<"C", "a", "p", "a">>, <<"c", "a", "p", "a">>, <<"C", "A", "P", "A">>}

\* Detail sheets of a workbook of the model.
MaxDetailSheets == 2

\* The lists of at most n different detail sheets.
RECURSIVE SheetLists(_)
SheetLists(n) ==
    IF n = 0 THEN {<<>>}
    ELSE SheetLists(n - 1)
         \cup {Append(list, DetailSheets[k]) :
                  list \in {l \in SheetLists(n - 1) : Len(l) = n - 1},
                  k \in 1..Len(DetailSheets)}

WorkbookPool ==
    {list \in SheetLists(MaxDetailSheets) :
        \A i, j \in 1..Len(list) : i # j => list[i].name # list[j].name}
    \cup {<<[name |-> name, rows |-> CoverRows[k]]>> \o list :
             name \in CoverNames, k \in 1..Len(CoverRows),
             list \in {l \in SheetLists(MaxDetailSheets) :
                          \A i, j \in 1..Len(l) : i # j => l[i].name # l[j].name}}

InitParser ==
    /\ ImportUnused
    /\ blocks = Unused
    /\ dates = Unused
    /\ projection = Unused
    /\ label = Unused
    /\ \E workbook \in WorkbookPool :
          parser = [pc |-> "start", workbook |-> workbook, items |-> <<>>,
                    parserErrors |-> <<>>]

\* const { items, parserErrors } = parseWorkbook(fileData)
ParseWorkbook ==
    /\ parser.pc = "start"
    /\ LET result == parseWorkbook(parser.workbook)
       IN  parser' = [parser EXCEPT !.items = result.items,
                                    !.parserErrors = result.parserErrors,
                                    !.pc = "done"]
    /\ UNCHANGED <<importVars, dates, projection, label, blocks>>

NextParser == ParseWorkbook

SpecParser == InitParser /\ [][NextParser]_vars

\* The workbook has a sheet named Capa or capa.
HasCoverSheet ==
    \E k \in 1..Len(parser.workbook) : parser.workbook[k].name \in {<<"C", "a", "p", "a">>, <<"c", "a", "p", "a">>}

\* The item has a license number, an empreendimento and a validity date.
IsComplete(item) ==
    /\ item.laoNumber # <<>>
    /\ item.empreendimento # <<>>
    /\ item.validityDate # <<>>

\* C12 as stated: for every workbook, every item parseWorkbook returns has
\* a non-empty laoNumber, empreendimento and validityDate.
C12_EveryWorkbookFiltered ==
    parser.pc = "done" =>
        \A k \in 1..Len(parser.items) : IsComplete(parser.items[k])

\* C12, for a workbook with a cover sheet: the items returned are the
\* entries of the map that have a laoNumber, an empreendimento and a
\* validityDate, and every other entry has added one parserErrors message,
\* in order, that quotes its license number or its title.
C12_ValidationFilter ==
    parser.pc = "done" /\ HasCoverSheet =>
        LET values == MapValues(parser.workbook)
            dropped == SelectSeq(values, LAMBDA item : ~IsComplete(item))
        IN  /\ \A k \in 1..Len(parser.items) : IsComplete(parser.items[k])
            /\ parser.items = SelectSeq(values, IsComplete)
            /\ Len(parser.parserErrors) = Len(dropped)
            /\ \A k \in 1..Len(dropped) :
                   parser.parserErrors[k].text \in {dropped[k].laoNumber, dropped[k].title}

\* A workbook with a cover sheet of which one item was returned and another,
\* lacking its validity date, was dropped with a message.
C12_Witness ==
    /\ parser.pc = "done"
    /\ HasCoverSheet
    /\ Len(parser.items) >= 1
    /\ \E k \in 1..Len(parser.parserErrors) :
          /\ parser.parserErrors[k].kind = "sem validade"
          /\ \E n \in 1..Len(MapValues(parser.workbook)) :
                /\ MapValues(parser.workbook)[n].laoNumber = parser.parserErrors[k].text
                /\ MapValues(parser.workbook)[n].validityDate = <<>>

\* The key of a row that gives the process number, the FCEI, the CODAM
\* or a date: such a row alone makes no record.
IsOtherField(keyRaw) ==
    \/ normalizeText(keyRaw) \in {<<"p", "r", "o", "c", "e", "s", "s", "o">>, <<"f", "c", "e", "i">>, <<"c", "o", "d", "a", "m">>, <<"v", "a", "l", "i", "d", "a", "d", "e">>}
    \/ Includes(normalizeText(keyRaw), <<"e", "m", "i", "s", "s", "a", "o">>)

\* A sheet of the workbook is named "Capa" in some letter case.
HasCoverSheetAnyCase ==
    \E k \in 1..Len(parser.workbook) :
        ToLowerCase(parser.workbook[k].name) = <<"c", "a", "p", "a">>

\* C13. For a workbook without a cover sheet, that is, with no sheet named
\* "Capa" in any letter case, parseWorkbook returns exactly the records of the
\* detail pass, one for each sheet that is not ignored and has a license, an
\* empreendimento or a detail, each with an empty condition list, and
\* exactly one parserErrors message, which names the missing cover sheet.
C13_MissingCoverSheet ==
    parser.pc = "done" /\ ~HasCoverSheetAnyCase =>
        LET read == SelectSeq(parser.workbook,
                        LAMBDA sheet :
                            /\ normalizeText(sheet.name) \notin IGNORED_SHEETS
                            /\ \E n \in 1..Len(sheet.rows) :
                                  /\ Trim(CellString(CellAt(sheet.rows[n], 0))) # <<>>
                                  /\ Trim(CellString(CellAt(sheet.rows[n], 1))) # <<>>
                                  /\ ~IsOtherField(CellString(CellAt(sheet.rows[n], 0))))
        IN  /\ parser.items = DetailPass(parser.workbook)
            /\ Len(parser.items) = Len(read)
            /\ \A k \in 1..Len(parser.items) :
                   /\ parser.items[k].conditions = <<>>
                   /\ parser.items[k].empreendimento # <<>>
                   /\ parser.items[k].laoNumber # <<>>
            /\ parser.parserErrors = <<[kind |-> "Aba Capa", text |-> <<>>]>>

\* A workbook without cover sheet whose two detail sheets were returned,
\* one of them without validity date.
C13_Witness ==
    /\ parser.pc = "done"
    /\ ~HasCoverSheetAnyCase
    /\ Len(parser.items) = 2
    /\ \E k \in 1..2 : parser.items[k].validityDate = <<>>
    /\ \E k \in 1..2 : parser.items[k].validityDate # <<>>
    /\ Len(parser.parserErrors) = 1

(***************************************************************************)
(* Properties of the condition and inspection writes                       *)
(***************************************************************************)

\* An addCondition call of the import is awaited.
AddConditionPending == pc = "condCall" /\ PendingCall.op = "addCondition"

\* The dates the parsed condition has of its own.
OwnDates ==
    (Range(ParsedCond.inspections) \cup {ParsedCond.lastInspectionDate}) \ {0}

\* C21. When a parsed condition matches no condition of the LAO, addCondition
\* is called with a record whose lastInspectionDate is the latest of the
\* parsed condition's own dates (its inspection dates and its
\* lastInspectionDate), null when it has none, and conditionCreated grows by
\* exactly one when the call returns.
C21_NewConditionLastInspection ==
    /\ [](pc = "condCall" =>
            (AddConditionPending <=> ~Found(MatchedCondition)))
    /\ [](AddConditionPending =>
            LET record == PendingCall.arg
            IN  /\ "id" \notin DOMAIN record
                /\ record.lastInspectionDate =
                       IF OwnDates = {} THEN 0
                       ELSE CHOOSE d \in OwnDates : \A e \in OwnDates : e <= d)
    /\ [][AddConditionPending /\ pc' = "insp" =>
            /\ summary'.conditionCreated = summary.conditionCreated + 1
            /\ [summary' EXCEPT !.conditionCreated = 0]
                   = [summary EXCEPT !.conditionCreated = 0]]_vars

\* A condition with the dates D3, D1 and one without any date have been
\* created, the first with lastInspectionDate D3, the second with null.
C21_Witness ==
    /\ pc = "done"
    /\ summary.conditionCreated = 2
    /\ \E j, k \in RunCalls :
          /\ calls[j].op = "addCondition" /\ calls[j].status = "ok"
          /\ calls[k].op = "addCondition" /\ calls[k].status = "ok"
          /\ calls[j].arg.lastInspectionDate = D3
          /\ parsedItems[calls[j].item].conditions[1].inspections = <<D3, D1>>
          /\ calls[k].arg.lastInspectionDate = 0
          /\ parsedItems[calls[k].item].conditions[1].inspections = <<>>

\* The inspection date the date loop is at.
InspectionDateValue == sortedInspectionDates[dateIndex]

\* An inspection of the condition on that date is among the inspections the
\* run knows: those of the props and those it has added itself.
KnownToRun ==
    \E k \in 1..Len(currentInspections) :
        /\ currentInspections[k].conditionId = conditionId
        /\ currentInspections[k].inspectionDate = InspectionDateValue

\* The summary but for its two inspection counters.
BesidesInspectionCounters(sum) ==
    [sum EXCEPT !.inspectionsCreated = 0, !.inspectionsSkipped = 0]

\* C22. The date loop goes over the distinct dates of the parsed condition,
\* and for each of them exactly one of inspectionsSkipped and
\* inspectionsCreated grows by one.  The date is skipped without a call of
\* addInspection when the run knows an inspection of the condition on that
\* date, and skipped when addInspection returns no identifier, which records
\* no error and adds nothing to the inspections the run knows; otherwise it
\* is created, and the inspection inserted has source "import".
C22_InspectionAccounting ==
    /\ [](pc \in {"insp", "inspCall"} =>
            /\ Range(sortedInspectionDates) = Range(ParsedCond.inspections)
            /\ \A j, k \in 1..Len(sortedInspectionDates) :
                  j # k => sortedInspectionDates[j] # sortedInspectionDates[k])
    /\ [](pc = "inspCall" =>
            /\ PendingCall.op = "addInspection"
            /\ PendingCall.arg.source = "import"
            /\ PendingCall.arg.conditionId = conditionId
            /\ PendingCall.arg.inspectionDate = InspectionDateValue
            /\ ~KnownToRun)
    /\ [][(pc = "insp" /\ dateIndex <= Len(sortedInspectionDates)) =>
            /\ BesidesInspectionCounters(summary') = BesidesInspectionCounters(summary)
            /\ summary'.inspectionsCreated = summary.inspectionsCreated
            /\ UNCHANGED <<inspectionsDb, currentInspections>>
            /\ IF KnownToRun
               THEN /\ summary'.inspectionsSkipped = summary.inspectionsSkipped + 1
                    /\ dateIndex' = dateIndex + 1
                    /\ calls' = calls
               ELSE /\ summary'.inspectionsSkipped = summary.inspectionsSkipped
                    /\ dateIndex' = dateIndex
                    /\ pc' = "inspCall"]_vars
    /\ [][(pc = "inspCall" /\ pc' = "insp") =>
            /\ BesidesInspectionCounters(summary') = BesidesInspectionCounters(summary)
            /\ dateIndex' = dateIndex + 1
            /\ IF calls'[Len(calls)].result = 0
               THEN /\ summary'.inspectionsSkipped = summary.inspectionsSkipped + 1
                    /\ summary'.inspectionsCreated = summary.inspectionsCreated
                    /\ UNCHANGED <<inspectionsDb, currentInspections>>
               ELSE /\ summary'.inspectionsCreated = summary.inspectionsCreated + 1
                    /\ summary'.inspectionsSkipped = summary.inspectionsSkipped
                    /\ currentInspections' = Append(currentInspections,
                           Spread([id |-> calls'[Len(calls)].result], PendingCall.arg))
                    /\ inspectionsDb' = Append(inspectionsDb,
                           Spread(PendingCall.arg, [id |-> calls'[Len(calls)].result]))]_vars

\* An import of two parsed conditions into the store whose addInspection
\* rejects duplicates: two dates were known to the run and skipped without a
\* call, one was turned down by the store and skipped, one was created, and
\* no error was recorded.
C22_Witness ==
    /\ pc = "done"
    /\ runNo = 1
    /\ Len(parsedItems) = 1
    /\ summary.inspectionsSkipped = 3
    /\ summary.inspectionsCreated = 1
    /\ summary.importErrors = <<>>
    /\ Cardinality({k \in RunCalls : calls[k].op = "addInspection"}) = 2
    /\ \E k \in RunCalls :
          /\ calls[k].op = "addInspection"
          /\ calls[k].status = "ok"
          /\ calls[k].result = 0
    /\ \E k \in 1..Len(inspectionsDb) :
          inspectionsDb[k].source = "import" /\ inspectionsDb[k].inspectionDate = D2

\* customMonthsInterval > 0 if and only if frequencyPreset is custom.
IntervalConsistent(record) ==
    (/\ "customMonthsInterval" \in DOMAIN record
     /\ record.customMonthsInterval > 0)
        <=> record.frequencyPreset = "custom"

\* C23. Every condition record passed to addCondition or updateCondition
\* carries a customMonthsInterval > 0 if and only if its frequencyPreset is
\* custom.
C23_CustomIntervalConsistency ==
    \A k \in 1..Len(calls) :
        calls[k].op \in ConditionOps => IntervalConsistent(calls[k].arg)

\* The same consistency for the conditions parseWorkbook returns, which are
\* the results of mergeCondition.  It does not hold either: a row with
\* "a cada 5 meses" followed by a row of the same normalized name with
\* "Mensal" gives the preset mensal with the interval 5.
C23_ParserIntervalConsistency ==
    parser.pc = "done" =>
        \A i \in 1..Len(parser.items) :
            \A c \in 1..Len(parser.items[i].conditions) :
                IntervalConsistent(parser.items[i].conditions[c])

(***************************************************************************)
(* Properties of the cover pass and of the cross-pass merge                *)
(***************************************************************************)

\* The rows of the cover sheet of the workbook, for a workbook that has one.
CapaRows == parser.workbook[CapaSheet(parser.workbook)].rows

\* Columns A and B of a cover row, as the cover pass reads them.
ColA(row) == Trim(CellString(CellAt(row, 0)))
ColB(row) == Trim(CellString(CellAt(row, 1)))

\* The row names an entity: column A holds a text with "lao".
IsTitleRow(row) ==
    ColA(row) # <<>> /\ Includes(normalizeText(ColA(row)), <<"l", "a", "o">>)

\* The import key of the entity a title row names.
TitleKey(row) ==
    getImportKey(extractLaoNumber(ColA(row)),
                 OrElse(extractEmpreendimento(ColA(row)), extractLaoNumber(ColA(row))))

\* The title row a row below the header belongs to: the nearest one above
\* it, 0 when there is none.
TitleRowOf(r) ==
    IF \E t \in 2..(r - 1) : IsTitleRow(CapaRows[t])
    THEN CHOOSE t \in 2..(r - 1) :
             /\ IsTitleRow(CapaRows[t])
             /\ \A u \in (t + 1)..(r - 1) : ~IsTitleRow(CapaRows[u])
    ELSE 0

\* The condition rows of the entity with that key whose name normalizes to
\* the given text.
ConditionRows(key, normalizedName) ==
    {r \in 2..Len(CapaRows) :
        /\ ~IsTitleRow(CapaRows[r])
        /\ ColB(CapaRows[r]) # <<>>
        /\ TitleRowOf(r) # 0
        /\ TitleKey(CapaRows[TitleRowOf(r)]) = key
        /\ normalizeText(ColB(CapaRows[r])) = normalizedName}

\* The dates the cells of those rows hold, in whatever order they hold them.
DatesOfRows(rowSet) == UNION {Range(RowInspections(CapaRows[r])) : r \in rowSet}

\* The names the condition rows of an entity have, normalized.
ConditionNames(key) ==
    {normalizeText(ColB(CapaRows[r])) :
        r \in {q \in 2..Len(CapaRows) :
                  /\ ~IsTitleRow(CapaRows[q])
                  /\ ColB(CapaRows[q]) # <<>>
                  /\ TitleRowOf(q) # 0
                  /\ TitleKey(CapaRows[TitleRowOf(q)]) = key}}

\* C24. For a workbook with a cover sheet, every returned item has one
\* parsed condition for each normalized name among the condition rows of its
\* entity; the inspections of that condition are the dates of all those rows
\* without repetition and in ascending order, and its lastInspectionDate is
\* the latest of them (none when there is no date).  The result is stated on
\* the set of the rows' dates, so it does not depend on the order in which
\* the rows supply them.
C24_ConditionRowsMerge ==
    (parser.pc = "done" /\ HasCoverSheet) =>
        \A i \in 1..Len(parser.items) :
            LET item == parser.items[i]
                conds == item.conditions
            IN  /\ \A c, d \in 1..Len(conds) :
                      c # d => normalizeText(conds[c].name) # normalizeText(conds[d].name)
                /\ {normalizeText(conds[c].name) : c \in 1..Len(conds)}
                       = ConditionNames(item.importKey)
                /\ \A c \in 1..Len(conds) :
                      LET union == DatesOfRows(ConditionRows(item.importKey,
                                                   normalizeText(conds[c].name)))
                      IN  /\ Range(conds[c].inspections) = union
                          /\ \A j \in 1..(Len(conds[c].inspections) - 1) :
                                conds[c].inspections[j] < conds[c].inspections[j + 1]
                          /\ conds[c].lastInspectionDate =
                                 IF union = {} THEN 0
                                 ELSE CHOOSE m \in union : \A e \in union : e <= m

\* Two rows of one entity, "Ruido" and " RUIDO", the first holding the dates
\* 2024-02-10, 2024-03-05 and the second 2024-01-15, 2024-02-10, have become
\* one condition of a returned item, with the three dates in ascending order.
C24_Witness ==
    /\ parser.pc = "done"
    /\ HasCoverSheet
    /\ \E i \in 1..Len(parser.items) :
          /\ Len(parser.items[i].conditions) = 1
          /\ Cardinality(ConditionRows(parser.items[i].importKey,
                                       <<"r", "u", "i", "d", "o">>)) = 2
          /\ parser.items[i].conditions[1].inspections = <<D1, D2, D3>>
          /\ parser.items[i].conditions[1].lastInspectionDate = D3

\* parseWorkbook returned early with the message of the missing cover sheet.
MissingCoverReported ==
    \E k \in 1..Len(parser.parserErrors) : parser.parserErrors[k].kind = "Aba Capa"

\* C25. The cover sheet is found whatever the letter case of its name: the
\* message of the missing cover sheet is returned exactly for the workbooks
\* in which no sheet name equals "capa" case-insensitively.
C25_CoverLookupAnyCase ==
    parser.pc = "done" => (MissingCoverReported <=> ~HasCoverSheetAnyCase)

\* The items of the cover pass and the records of the detail pass, for a
\* workbook with a cover sheet.
CoverItems == CoverPass(CapaRows, 1, NoCoverState).map
DetailRecords == DetailPass(parser.workbook)

\* The cover items a detail record matches by its normalized empreendimento.
SameEmpreendimento(record) ==
    {c \in 1..Len(CoverItems) :
        normalizeText(CoverItems[c].empreendimento)
            = normalizeText(record.empreendimento)}

\* The detail record matches a cover item, by import key or by empreendimento.
MatchesCoverItem(record) ==
    \/ \E c \in 1..Len(CoverItems) : CoverItems[c].importKey = record.importKey
    \/ SameEmpreendimento(record) # {}

\* The import key of the item a detail record ends up in: the cover item of
\* its key, else the first cover item of its empreendimento, else the item
\* of its own key.
TargetKey(record) ==
    IF \E c \in 1..Len(CoverItems) : CoverItems[c].importKey = record.importKey
    THEN record.importKey
    ELSE IF SameEmpreendimento(record) # {}
         THEN CoverItems[CHOOSE c \in SameEmpreendimento(record) :
                             \A d \in SameEmpreendimento(record) : c <= d].importKey
         ELSE record.importKey

\* The detail records that end up in the item of a key, in sheet order.
RecordsInto(key) ==
    SelectSeq(DetailRecords, LAMBDA record : TargetKey(record) = key)

\* What the item of a key starts from: the cover item, or for a key without
\* one the first detail record of that key; in that order, followed by the
\* (other) detail records that end up in it.
Suppliers(key) ==
    IF \E c \in 1..Len(CoverItems) : CoverItems[c].importKey = key
    THEN <<CoverItems[CHOOSE c \in 1..Len(CoverItems) :
                          CoverItems[c].importKey = key]>> \o RecordsInto(key)
    ELSE RecordsInto(key)

\* The first non-empty text of a list, the empty text when there is none.
FirstNonEmpty(texts) ==
    IF \E k \in 1..Len(texts) : texts[k] # <<>>
    THEN texts[CHOOSE k \in 1..Len(texts) :
                   texts[k] # <<>> /\ \A j \in 1..(k - 1) : texts[j] = <<>>]
    ELSE <<>>

\* C26 as stated, in its last part: every detail record that matches no cover
\* item is an item of its own.  It does not hold: a detail record whose
\* import key is that of an earlier detail record without cover item is
\* merged into the item of that record.
C26_UnmatchedRecordStandsAlone ==
    (parser.pc = "done" /\ HasCoverSheet) =>
        \A j \in 1..Len(DetailRecords) :
            (~MatchesCoverItem(DetailRecords[j]) /\ IsComplete(DetailRecords[j])) =>
                \E i \in 1..Len(parser.items) : parser.items[i] = DetailRecords[j]

\* C26. For a workbook with a cover sheet, every returned item is the item
\* of one import key; its laoNumber, empreendimento, title and conditions
\* are those of the cover item of that key (of the first detail record of
\* that key when there is no such cover item), and each of processNumber,
\* fcei, codam, issueDate and validityDate is the first non-empty value among
\* that cover item or record and the detail records merged into it, in sheet
\* order.  A detail record is merged into the cover item of its import key,
\* failing that into the first cover item of its normalized empreendimento,
\* failing that into the item of an earlier detail record of its import key;
\* only when there is none either is it an item of its own.
C26_CoverDataWins ==
    (parser.pc = "done" /\ HasCoverSheet) =>
        /\ \A i, j \in 1..Len(parser.items) :
              i # j => parser.items[i].importKey # parser.items[j].importKey
        /\ \A i \in 1..Len(parser.items) :
              LET item == parser.items[i]
                  from == Suppliers(item.importKey)
              IN  /\ from # <<>>
                  /\ item.laoNumber = from[1].laoNumber
                  /\ item.empreendimento = from[1].empreendimento
                  /\ item.title = from[1].title
                  /\ item.conditions = from[1].conditions
                  /\ item.processNumber =
                         FirstNonEmpty([k \in 1..Len(from) |-> from[k].processNumber])
                  /\ item.fcei = FirstNonEmpty([k \in 1..Len(from) |-> from[k].fcei])
                  /\ item.codam = FirstNonEmpty([k \in 1..Len(from) |-> from[k].codam])
                  /\ item.issueDate =
                         FirstNonEmpty([k \in 1..Len(from) |-> from[k].issueDate])
                  /\ item.validityDate =
                         FirstNonEmpty([k \in 1..Len(from) |-> from[k].validityDate])
        /\ \A j \in 1..Len(DetailRecords) :
              LET into == Suppliers(TargetKey(DetailRecords[j]))
              IN  IsComplete([DetailRecords[j] EXCEPT
                      !.validityDate =
                          FirstNonEmpty([k \in 1..Len(into) |-> into[k].validityDate])])
                  => \E i \in 1..Len(parser.items) :
                        parser.items[i].importKey = TargetKey(DetailRecords[j])

\* Two detail records were merged into one cover item with conditions: the
\* validity date is that of the first record although the second has a
\* different one, and the fcei, which the first does not have, is that of
\* the second.
C26_Witness ==
    /\ parser.pc = "done"
    /\ HasCoverSheet
    /\ \E i \in 1..Len(parser.items) :
          LET from == Suppliers(parser.items[i].importKey)
          IN  /\ Len(from) = 3
              /\ parser.items[i].conditions # <<>>
              /\ from[1].validityDate = <<>>
              /\ from[2].validityDate # <<>>
              /\ from[3].validityDate # <<>>
              /\ from[3].validityDate # from[2].validityDate
              /\ parser.items[i].validityDate = from[2].validityDate
              /\ from[2].fcei = <<>>
              /\ parser.items[i].fcei = from[3].fcei
              /\ parser.items[i].fcei # <<>>

(***************************************************************************)
(* Calls of mergeDetailBlocks                                              *)
(***************************************************************************)

\* Longest list of detail entries handed to mergeDetailBlocks.
MaxBlockLen == 2

\* Detail entries: the first two have the same key and value but for case
\* and spacing, the third has their key with another value, the fourth
\* their value with another key.
DetailEntries ==
    {[id |-> <<"a">>, key |-> <<"O", "b", "s">>, value |-> <<"x">>, order |-> 7],
     [id |-> <<"b">>, key |-> <<" ", "O", "B", "S">>, value |-> <<"X", " ">>, order |-> 0],
     [id |-> <<"c">>, key |-> <<"O", "b", "s">>, value |-> <<"y">>, order |-> 3],
     [id |-> <<>>, key |-> <<"A^", "r", "e", "a">>, value |-> <<"x">>, order |-> 1]}

DetailLists == UNION {[1..n -> DetailEntries] : n \in 0..MaxBlockLen}

InitBlocks ==
    /\ ImportUnused
    /\ dates = Unused
    /\ projection = Unused
    /\ label = Unused
    /\ parser = Unused
    /\ \E base \in DetailLists, addition \in DetailLists :
          blocks = [pc |-> "start", base |-> base, addition |-> addition,
                    merged |-> <<>>, again |-> <<>>]

\* merged = mergeDetailBlocks(base, addition)
CallMergeDetailBlocks ==
    /\ blocks.pc = "start"
    /\ blocks' = [blocks EXCEPT
                     !.merged = mergeDetailBlocks(blocks.base, blocks.addition),
                     !.pc = "merged"]
    /\ UNCHANGED <<importVars, dates, projection, label, parser>>

\* again = mergeDetailBlocks(merged, addition)
CallMergeDetailBlocksAgain ==
    /\ blocks.pc = "merged"
    /\ blocks' = [blocks EXCEPT
                     !.again = mergeDetailBlocks(blocks.merged, blocks.addition),
                     !.pc = "done"]
    /\ UNCHANGED <<importVars, dates, projection, label, parser>>

NextBlocks ==
    \/ CallMergeDetailBlocks
    \/ CallMergeDetailBlocksAgain

SpecBlocks == InitBlocks /\ [][NextBlocks]_vars

\* The (normalized key, normalized value) pair of a detail entry.
DetailPair(entry) == <<normalizeText(entry.key), normalizeText(entry.value)>>

\* The positions of the entries of addition whose pair occurs neither in
\* base nor earlier in addition, in ascending order.
FirstSeen ==
    SelectSeq([j \in 1..Len(blocks.addition) |-> j],
              LAMBDA j :
                  /\ \A k \in 1..Len(blocks.base) :
                        DetailPair(blocks.base[k]) # DetailPair(blocks.addition[j])
                  /\ \A i \in 1..(j - 1) :
                        DetailPair(blocks.addition[i]) # DetailPair(blocks.addition[j]))

\* The keys, values and order fields of a list of detail entries.
KeysValuesOrder(list) ==
    [k \in 1..Len(list) |-> <<list[k].key, list[k].value, list[k].order>>]

\* C27. mergeDetailBlocks(base, addition) is the entries of base in order,
\* followed by the entries of addition whose (normalized key, normalized
\* value) pair does not occur earlier in the result, in the order of
\* addition; the order fields of the result are 0, 1, ..., n-1; and merging
\* addition into the result once more leaves its keys, values and order
\* fields as they are.
C27_DetailBlockMerge ==
    /\ blocks.pc \in {"merged", "done"} =>
          LET base == blocks.base
              addition == blocks.addition
              merged == blocks.merged
          IN  /\ Len(merged) = Len(base) + Len(FirstSeen)
              /\ \A k \in 1..Len(base) :
                    merged[k] = [base[k] EXCEPT !.order = k - 1]
              /\ \A n \in 1..Len(FirstSeen) :
                    /\ merged[Len(base) + n].key = addition[FirstSeen[n]].key
                    /\ merged[Len(base) + n].value = addition[FirstSeen[n]].value
              /\ \A k \in 1..Len(merged) : merged[k].order = k - 1
              /\ \A j, k \in (Len(base) + 1)..Len(merged) :
                    j # k => DetailPair(merged[j]) # DetailPair(merged[k])
    /\ blocks.pc = "done" =>
          KeysValuesOrder(blocks.again) = KeysValuesOrder(blocks.merged)

\* A base that holds one pair twice, with order fields 7 and 0, and an
\* addition with that pair again and a new one: base is kept whole, the new
\* entry is added once, and the second merge has added nothing.
C27_Witness ==
    /\ blocks.pc = "done"
    /\ Len(blocks.base) = 2
    /\ DetailPair(blocks.base[1]) = DetailPair(blocks.base[2])
    /\ blocks.base[1].order = 7
    /\ Len(blocks.addition) = 2
    /\ DetailPair(blocks.addition[1]) = DetailPair(blocks.base[1])
    /\ Len(blocks.merged) = 3
    /\ blocks.merged[3].key = blocks.addition[2].key
    /\ blocks.merged[3].order = 2
    /\ blocks.again = blocks.merged

(***************************************************************************)
(* Imports, inspections and edits on one screen                            *)
(***************************************************************************)

\* How many times a file is chosen, an inspection dialog or a form opened,
\* a record deleted, the year changed, or a detail row or an attachment of
\* the license form edited.
MaxOperations == 2

\* How many calls of saveCondition, saveLao, the deletions and the storage
\* of attachments have not returned.
MaxPending == 1

\* One date, earlier than the stored lastInspectionDate, which is also
\* the parsed lastInspectionDate.
CondE == ParsedCondition(NameM, "anual", 0, <<D1>>, D1)

\* The files that are chosen. Three are workbooks, given by what
\* parseWorkbook returns for them: one item each, for the stored license or
\* for a new one, with conditions as the parser returns them, the last with
\* the message of an entry the validation filter dropped. The fourth cannot
\* be read as a workbook: file.arrayBuffer() rejects or XLSX.read throws.
ImportFiles ==
    {[throws |-> FALSE, parserErrors |-> <<>>,
      items |-> <<ParsedItem(L1x, SEx, DV, <<CondB, CondA>>)>>],
     [throws |-> FALSE, parserErrors |-> <<>>,
      items |-> <<ParsedItem(L1x, SEx, DV, <<CondE>>)>>],
     [throws |-> FALSE,
      parserErrors |-> <<[kind |-> "sem validade", text |-> L1]>>,
      items |-> <<ParsedItem(L2, TT, DV, <<CondB>>)>>],
     [throws |-> TRUE, parserErrors |-> <<>>, items |-> <<>>]}

\* What the date field of the inspection dialog is changed to: emptied, or
\* one of two dates.
ManualDates == {0, D1, D3}

\* new Date().getFullYear() when the screen was mounted.
CurrentYear == 2024

\* What is typed into the year field: nothing, or another year.
YearInputs == {0, 2025}

\* The cells of the schedule that are clicked: the month (0-based) and the
\* day of the projected date the cell shows, if any (0: none).
ScheduleCells ==
    {[monthIndex |-> 2, projectedDay |-> 0],
     [monthIndex |-> 2, projectedDay |-> 5]}

\* What the fields of the condition form are changed to.
ConditionFieldChanges ==
    <<[name |-> "lastInspectionDate", value |-> 0],
      [name |-> "name", value |-> NameM]>>

\* What the fields of the license form are changed to.
LaoFieldChanges ==
    <<[name |-> "laoNumber", value |-> L2],
      [name |-> "empreendimento", value |-> TT],
      [name |-> "validityDate", value |-> DV]>>

\* What is typed into the two inputs of a detail row.
DetailFieldChanges ==
    <<[field |-> "key", value |-> "k"], [field |-> "value", value |-> "v"]>>

\* The file that is attached in the license form. The id of an attachment
\* is written as its file name, and no file name is attached twice.
UploadedFiles == {"b.pdf"}

\* The stored license under the number and site of L2/TT, which match no
\* branch, with a branch assigned by hand.
StoredLaoT ==
    [StoredLao EXCEPT !.laoNumber = L2, !.empreendimento = TT, !.branchId = 9]

\* The stored condition, active, so that the schedule has a row for it.
ActiveCondition == [StoredCondition EXCEPT !.active = TRUE]

\* Stores in which the lastInspectionDate of every condition is at least
\* the date of each of its inspections: the empty store; the active
\* condition with lastInspectionDate D2 and its inspection of D1; the active
\* condition without lastInspectionDate and without inspections; the
\* inactive condition with lastInspectionDate D2 and its inspection of D1,
\* under the license of the site without branch.
ManualStorePool ==
    {[laos |-> <<>>, conditions |-> <<>>, inspections |-> <<>>, nextId |-> 1],
     [laos |-> <<StoredLao>>, conditions |-> <<ActiveCondition>>,
      inspections |-> <<StoredInspection>>, nextId |-> 5],
     [laos |-> <<StoredLao>>,
      conditions |-> <<[ActiveCondition EXCEPT !.lastInspectionDate = 0]>>,
      inspections |-> <<>>, nextId |-> 5],
     [laos |-> <<StoredLaoT>>, conditions |-> <<StoredCondition>>,
      inspections |-> <<StoredInspection>>, nextId |-> 5]}

\* The locals of executeImport besides its position.
importLocals ==
    <<parsedItems, summary, currentLaos, currentConditions,
      currentInspections, itemIndex, now, lao, condIndex, conditionId,
      sortedInspectionDates, dateIndex, calls, runNo, faults, other>>

\* What the handlers of the screen do not touch of an import.
runVars == <<pc, importLocals>>

\* No file is being read.
NoFile == [file |-> NoRecord]

\* inspectionDraft === null
NoDraft == [lao |-> NoRecord, condition |-> NoRecord, monthIndex |-> 0, defaultDate |-> 0]

\* No saveInspection is waiting for a collaborator.
NotSaving == [pc |-> "none"]

\* showConditionModal / showLaoModal is false (the form is then reset).
NoModal == [editing |-> NoRecord]

\* The state of the screen: the prop canEdit; the states selectedYear,
\* showImportModal, inspectionDraft and inspectionDate; the states loading,
\* message ("" for null) and result (NoRecord for null) of the import
\* modal; the file that is
\* being read, with the props of the rendering it was chosen in; the
\* saveInspection that is under way, with the values of its closure; the
\* condition and the license modal with their forms; the calls of
\* saveCondition, saveLao and the deletions that have not returned. The
\* history: how many operations there were, whether a duplicate was
\* rejected, whether an operation was begun on props older than the store
\* (stale) or while another was under way (overlapped).
ScreenOf(canEdit) ==
    [canEdit |-> canEdit, selectedYear |-> CurrentYear,
     showImportModal |-> FALSE, loading |-> FALSE, message |-> "",
     result |-> NoRecord, chosen |-> NoFile,
     inspectionDraft |-> NoDraft, inspectionDate |-> 0, saving |-> NotSaving,
     conditionModal |-> NoModal, laoModal |-> NoModal, pending |-> <<>>,
     operations |-> 0, rejected |-> FALSE, stale |-> FALSE,
     overlapped |-> FALSE]

\* The screen before anything is done on it, over one of the stores of
\* storePool, which the props show.
InitScreen(storePool, rejectValues, canEditValues) ==
    /\ branches = BranchList
    /\ \E st \in storePool :
          /\ laosDb = st.laos
          /\ conditionsDb = st.conditions
          /\ inspectionsDb = st.inspections
          /\ nextId = st.nextId
          /\ laos = st.laos
          /\ conditions = st.conditions
          /\ inspections = st.inspections
    /\ rejectsDuplicates \in rejectValues
    /\ clock = 2
    /\ parsedItems = <<>>
    /\ pc = "idle"
    /\ summary = EmptySummary
    /\ currentLaos = <<>>
    /\ currentConditions = <<>>
    /\ currentInspections = <<>>
    /\ itemIndex = 0
    /\ now = 0
    /\ lao = NoRecord
    /\ condIndex = 0
    /\ conditionId = 0
    /\ sortedInspectionDates = <<>>
    /\ dateIndex = 0
    /\ calls = <<>>
    /\ runNo = 0
    /\ faults = 0
    /\ other = NoOtherRun
    /\ \E canEdit \in canEditValues : manual = ScreenOf(canEdit)
    /\ UtilitiesUnused

InitManual == InitScreen(ManualStorePool, BOOLEAN, BOOLEAN)

\* The props show what the store holds.
Rendered ==
    /\ laos = laosDb
    /\ conditions = conditionsDb
    /\ inspections = inspectionsDb

\* No modal lies over the screen (each is "fixed inset-0 z-50": part_004
\* 406, lines 2447, 2685, 2805), so its buttons, rows and cells can be
\* clicked.
NoOverlay ==
    /\ ~manual.showImportModal
    /\ manual.inspectionDraft = NoDraft
    /\ manual.conditionModal = NoModal
    /\ manual.laoModal = NoModal

\* Lines 1981-1984: the license of the props a condition is listed under.
\* The schedule has a row for each license of the props (no filter set)
\* and, under it, one for each active condition of
\* conditionsByLao.get(lao.id).
RowLao(condition) ==
    LET k == FindIndex([n \in 1..Len(laos) |->
                            condition.active /\ laos[n].id = condition.laoId])
    IN  IF k = 0 THEN NoRecord ELSE laos[k]

\* A file is being read or imported, or a call of the screen has not
\* returned.
UnderWay ==
    \/ pc \notin {"idle", "done"}
    \/ manual.saving # NotSaving
    \/ manual.pending # <<>>

\* Line 1860: "Importar Workbook" (shown with and without canEdit).
OpenImportModal ==
    /\ NoOverlay
    /\ manual' = [manual EXCEPT !.showImportModal = TRUE]
    /\ UNCHANGED <<runVars, propVars, storeVars, clock, utilVars>>

\* Line 2857, part_004 414: the close button of the import modal, which is
\* not disabled while a file is read or imported.
CloseImportModal ==
    /\ manual.showImportModal
    /\ manual' = [manual EXCEPT !.showImportModal = FALSE]
    /\ UNCHANGED <<runVars, propVars, storeVars, clock, utilVars>>

\* part_004 381-391: a file is chosen; the input is disabled while loading,
\* which lasts until handleChangeFile has ended. It sets loading, empties
\* message and result and runs up to the await of file.arrayBuffer(); the
\* onImportParsed of its closure is the executeImport of the rendering the
\* file was chosen in, with the props of that rendering.
handleChangeFile ==
    /\ manual.showImportModal
    /\ ~manual.loading
    /\ manual.operations < MaxOperations
    /\ pc' = "reading"
    /\ \E file \in ImportFiles :
          manual' = [manual EXCEPT
                        !.loading = TRUE,
                        !.message = "",
                        !.result = NoRecord,
                        !.chosen = [file |-> file, laos |-> laos,
                                    conditions |-> conditions,
                                    inspections |-> inspections],
                        !.operations = @ + 1,
                        !.stale = @ \/ ~Rendered,
                        !.overlapped = @ \/ UnderWay]
    /\ UNCHANGED <<importLocals, propVars, storeVars, clock, utilVars>>

\* part_004 391-393 and lines 1633-1652: the file is read and parsed, and
\* executeImport is called with parsed.items and parsed.parserErrors: the
\* summary, which holds the parser's messages, and the shadow copies, which
\* are made of the props of its closure.
FileIsRead ==
    /\ pc = "reading"
    /\ ~manual.chosen.file.throws
    /\ pc' = "item"
    /\ parsedItems' = manual.chosen.file.items
    /\ runNo' = runNo + 1
    /\ summary' = [EmptySummary EXCEPT
                      !.parserErrors = manual.chosen.file.parserErrors]
    /\ currentLaos' = manual.chosen.laos
    /\ currentConditions' = manual.chosen.conditions
    /\ currentInspections' = manual.chosen.inspections
    /\ itemIndex' = 1
    /\ manual' = [manual EXCEPT !.chosen = NoFile]
    /\ UNCHANGED <<other, utilVars, propVars, storeVars, clock, itemLocals,
                   condIndex, conditionLocals, dateIndex, calls, faults>>

\* part_004 391-392 and 396-401: file.arrayBuffer() rejects or parseWorkbook
\* throws. The catch sets the message, the finally block ends loading;
\* executeImport is not called and result stays null.
FileReadFails ==
    /\ pc = "reading"
    /\ manual.chosen.file.throws
    /\ pc' = "idle"
    /\ manual' = [manual EXCEPT !.chosen = NoFile,
                                !.message = "Erro ao importar",
                                !.loading = FALSE]
    /\ UNCHANGED <<importLocals, propVars, storeVars, clock, utilVars>>

\* Line 1843 and part_004 393-401: executeImport returns its summary to
\* handleChangeFile, which sets result and message; the finally block ends
\* loading. (Every await of executeImport is inside the try of its item,
\* so it does not throw.)
ImportReturns ==
    /\ pc = "item"
    /\ itemIndex > Len(parsedItems)
    /\ pc' = "done"
    /\ manual' = [manual EXCEPT !.result = summary,
                                !.message = "Importacao concluida.",
                                !.loading = FALSE]
    /\ UNCHANGED <<importLocals, propVars, storeVars, clock, utilVars>>

\* Line 1894: setSelectedYear(Number(event.target.value) || currentYear).
ChangeSelectedYear ==
    /\ NoOverlay
    /\ manual.operations < MaxOperations
    /\ \E value \in YearInputs :
          LET selectedYear == IF value # 0 THEN value ELSE CurrentYear
          IN  /\ selectedYear # manual.selectedYear
              /\ manual' = [manual EXCEPT !.selectedYear = selectedYear,
                                          !.operations = @ + 1]
    /\ UNCHANGED <<runVars, propVars, storeVars, clock, utilVars>>

\* `${selectedYear}-${String(monthIndex + 1).padStart(2, '0')}-01`
FallbackDate(selectedYear, monthIndex) == ISO(selectedYear, monthIndex + 1, 1)

\* projectedDate || condition.lastInspectionDate || fallbackDate
DefaultInspectionDate(projectedDate, condition, fallbackDate) ==
    IF projectedDate # 0 THEN projectedDate
    ELSE IF condition.lastInspectionDate # 0 THEN condition.lastInspectionDate
    ELSE fallbackDate

\* Lines 1580-1597: a cell of the schedule is clicked, in the row of a
\* condition and its license of the props; the projected date of a cell is a
\* day of its month of the selected year. Without canEdit nothing happens.
\* An import or a call of the screen may be under way.
openInspectionEditor ==
    /\ manual.canEdit
    /\ NoOverlay
    /\ manual.operations < MaxOperations
    /\ \E k \in 1..Len(conditions), cell \in ScheduleCells :
          LET condition == conditions[k]
              projectedDate ==
                  IF cell.projectedDay = 0 THEN 0
                  ELSE ISO(manual.selectedYear, cell.monthIndex + 1,
                           cell.projectedDay)
              defaultDate ==
                  DefaultInspectionDate(projectedDate, condition,
                      FallbackDate(manual.selectedYear, cell.monthIndex))
          IN  /\ Found(RowLao(condition))
              /\ manual' = [manual EXCEPT
                            !.inspectionDraft =
                                [lao |-> RowLao(condition),
                                 condition |-> condition,
                                 monthIndex |-> cell.monthIndex,
                                 defaultDate |-> defaultDate],
                            !.inspectionDate = defaultDate,
                            !.operations = @ + 1,
                            !.stale = @ \/ ~Rendered,
                            !.overlapped = @ \/ UnderWay]
    /\ UNCHANGED <<runVars, propVars, storeVars, clock, utilVars>>

\* Lines 2817-2822: the date field of the dialog is changed; it is enabled
\* whenever the dialog is shown, also while saveInspection waits.
ChangeInspectionDate ==
    /\ manual.inspectionDraft # NoDraft
    /\ \E inspectionDate \in ManualDates \ {manual.inspectionDate} :
          manual' = [manual EXCEPT !.inspectionDate = inspectionDate]
    /\ UNCHANGED <<runVars, propVars, storeVars, clock, utilVars>>

\* Line 2837: Cancelar closes the dialog, also while saveInspection waits.
CancelInspection ==
    /\ manual.inspectionDraft # NoDraft
    /\ manual' = [manual EXCEPT !.inspectionDraft = NoDraft]
    /\ UNCHANGED <<runVars, propVars, storeVars, clock, utilVars>>

\* Lines 1603-1610: what saveInspection hands to onAddInspection (the note
\* left empty).
ManualInspection(inspectionDraft, inspectionDate, createdAt) ==
    [laoId |-> inspectionDraft.lao.id, conditionId |-> inspectionDraft.condition.id,
     inspectionDate |-> inspectionDate, source |-> "manual",
     createdAt |-> createdAt]

\* Faulty variant: the condition is rewritten after every saved inspection.
AdvancesLastInspectionAlways(currentLast, inspectionDate) == TRUE

\* Lines 1617-1618: !currentLast || inspectionDate > currentLast.
AdvancesLastInspection(currentLast, inspectionDate) ==
    currentLast = 0 \/ inspectionDate > currentLast

\* Lines 1599-1610: "Salvar vistoria" is clicked (the button is disabled while
\* savingInspection); saveInspection returns at once without a draft or a
\* date, else it runs up to the await of onAddInspection, with the draft and
\* the date of the render it was clicked in.
saveInspection ==
    /\ manual.saving = NotSaving
    /\ manual.inspectionDraft # NoDraft
    /\ manual.inspectionDate # 0
    /\ manual' = [manual EXCEPT
                     !.saving =
                         [pc |-> "adding",
                          inspectionDraft |-> manual.inspectionDraft,
                          inspectionDate |-> manual.inspectionDate,
                          arg |-> ManualInspection(manual.inspectionDraft,
                                                   manual.inspectionDate, clock)]]
    /\ UNCHANGED <<runVars, propVars, storeVars, clock, utilVars>>

\* Lines 1603-1624: onAddInspection has returned. Null: the alert, and the
\* dialog stays as it is. An identifier: the condition of the draft is
\* handed to onUpdateCondition with the new lastInspectionDate when that
\* advances it, else the dialog is closed and its date emptied.
SavedInspectionReturns ==
    /\ manual.saving.pc = "adding"
    /\ LET saving == manual.saving
       IN  IF StoreRejectsInspection(saving.arg)
           THEN /\ manual' = [manual EXCEPT !.saving = NotSaving, !.rejected = TRUE]
                /\ UNCHANGED <<inspectionsDb, nextId>>
           ELSE /\ inspectionsDb' = StoreAdd(inspectionsDb, saving.arg)
                /\ nextId' = nextId + 1
                /\ IF AdvancesLastInspection(
                          saving.inspectionDraft.condition.lastInspectionDate,
                          saving.inspectionDate)
                   THEN manual' = [manual EXCEPT !.saving =
                               [pc |-> "updating",
                                arg |-> Spread(saving.inspectionDraft.condition,
                                    [lastInspectionDate |-> saving.inspectionDate,
                                     updatedAt |-> clock])]]
                   ELSE manual' = [manual EXCEPT
                                      !.saving = NotSaving,
                                      !.inspectionDraft = NoDraft,
                                      !.inspectionDate = 0]
    /\ UNCHANGED <<runVars, propVars, laosDb, conditionsDb, rejectsDuplicates,
                   clock, utilVars>>

\* Lines 1619-1630: onUpdateCondition has returned; the dialog is closed and
\* its date emptied.
LastInspectionWritten ==
    /\ manual.saving.pc = "updating"
    /\ conditionsDb' = StoreUpdate(conditionsDb, manual.saving.arg)
    /\ manual' = [manual EXCEPT !.saving = NotSaving,
                                !.inspectionDraft = NoDraft,
                                !.inspectionDate = 0]
    /\ UNCHANGED <<runVars, propVars, laosDb, inspectionsDb, nextId,
                   rejectsDuplicates, clock, utilVars>>

\* delete record.field
Delete(record, field) == [f \in DOMAIN record \ {field} |-> record[f]]

\* The call at position k of a list of calls has returned.
Answered(pending, k) == SubSeq(pending, 1, k - 1) \o SubSeq(pending, k + 1, Len(pending))

\* deleteLao / deleteCondition: the store drops the record of that id.
StoreDelete(db, id) == SelectSeq(db, LAMBDA record : record.id # id)

\* Lines 1481-1492: the condition form after resetConditionForm.
EmptyConditionForm ==
    [laoId |-> 0, name |-> <<>>, frequencyPreset |-> "mensal",
     customMonthsInterval |-> 0, lastInspectionDate |-> 0, notes |-> "",
     active |-> TRUE, createdAt |-> 0, updatedAt |-> 0]

\* Lines 1494-1498: "Nova condicionante" of a license of the props.
openCreateCondition ==
    /\ manual.canEdit
    /\ NoOverlay
    /\ manual.operations < MaxOperations
    /\ \E k \in 1..Len(laos) :
          manual' = [manual EXCEPT
                        !.conditionModal =
                            [editing |-> NoRecord,
                             form |-> [EmptyConditionForm EXCEPT !.laoId = laos[k].id]],
                        !.operations = @ + 1]
    /\ UNCHANGED <<runVars, propVars, storeVars, clock, utilVars>>

\* Lines 1500-1509: "Editar" in the row of a condition of the props.
openEditCondition ==
    /\ manual.canEdit
    /\ NoOverlay
    /\ manual.operations < MaxOperations
    /\ \E k \in 1..Len(conditions) :
          LET condition == conditions[k]
          IN  /\ Found(RowLao(condition))
              /\ manual' = [manual EXCEPT
                  !.conditionModal =
                      [editing |-> condition,
                       form |-> Spread(condition,
                           [customMonthsInterval |->
                                IF "customMonthsInterval" \in DOMAIN condition
                                THEN condition.customMonthsInterval ELSE 0,
                            lastInspectionDate |-> condition.lastInspectionDate,
                            notes |-> condition.notes])],
                  !.operations = @ + 1]
    /\ UNCHANGED <<runVars, propVars, storeVars, clock, utilVars>>

\* Lines 1511-1522: a field of the condition form is changed.
handleConditionFieldChange ==
    /\ manual.conditionModal # NoModal
    /\ \E c \in 1..Len(ConditionFieldChanges) :
          LET change == ConditionFieldChanges[c]
          IN
          /\ manual.conditionModal.form[change.name] # change.value
          /\ manual' = [manual EXCEPT
                           !.conditionModal.form[change.name] = change.value]
    /\ UNCHANGED <<runVars, propVars, storeVars, clock, utilVars>>

\* Lines 2783-2787: Cancelar of the condition modal.
CancelCondition ==
    /\ manual.conditionModal # NoModal
    /\ manual' = [manual EXCEPT !.conditionModal = NoModal]
    /\ UNCHANGED <<runVars, propVars, storeVars, clock, utilVars>>

\* Lines 1537-1551: conditionPayload.
ConditionPayload(conditionForm, editingCondition, stamp) ==
    LET payload ==
            Spread(conditionForm,
                [lastInspectionDate |-> conditionForm.lastInspectionDate,
                 notes |-> conditionForm.notes,
                 createdAt |-> IF Found(editingCondition)
                                  /\ editingCondition.createdAt # 0
                               THEN editingCondition.createdAt ELSE stamp,
                 updatedAt |-> stamp])
    IN  IF conditionForm.frequencyPreset = "custom"
        THEN Spread(payload,
                 [customMonthsInterval |-> conditionForm.customMonthsInterval])
        ELSE Delete(payload, "customMonthsInterval")

\* Lines 1553-1562: updatedCondition.
EditedCondition(editingCondition, conditionPayload, stamp) ==
    LET updatedCondition ==
            Spread(Spread(editingCondition, conditionPayload),
                   [createdAt |-> editingCondition.createdAt,
                    updatedAt |-> stamp])
    IN  IF conditionPayload.frequencyPreset # "custom"
        THEN Delete(updatedCondition, "customMonthsInterval")
        ELSE updatedCondition

\* Lines 1524-1569: "Salvar condicionante" (never disabled; here while fewer
\* than MaxPending calls are out). Without a
\* license or a name, or with a custom frequency without an interval,
\* saveCondition returns after the alert; else it runs up to the await of
\* onUpdateCondition or onAddCondition.
saveCondition ==
    /\ manual.conditionModal # NoModal
    /\ Len(manual.pending) < MaxPending
    /\ LET conditionForm == manual.conditionModal.form
           editingCondition == manual.conditionModal.editing
           conditionPayload == ConditionPayload(conditionForm, editingCondition, clock)
       IN  /\ conditionForm.laoId # 0
           /\ Trim(conditionForm.name) # <<>>
           /\ ~(/\ conditionForm.frequencyPreset = "custom"
                /\ conditionForm.customMonthsInterval <= 0)
           /\ manual' = [manual EXCEPT
                  !.pending = Append(@,
                      IF Found(editingCondition)
                      THEN [op |-> "updateCondition",
                            arg |-> EditedCondition(editingCondition,
                                                    conditionPayload, clock)]
                      ELSE [op |-> "addCondition",
                            arg |-> Spread(conditionPayload,
                                        [createdAt |-> clock, updatedAt |-> clock])])]
    /\ UNCHANGED <<runVars, propVars, storeVars, clock, utilVars>>

\* Lines 1563-1572: onUpdateCondition or onAddCondition has returned; the
\* condition modal is closed and its form reset.
SavedConditionReturns ==
    /\ \E k \in 1..Len(manual.pending) :
          LET call == manual.pending[k]
          IN  /\ call.op \in {"updateCondition", "addCondition"}
              /\ IF call.op = "updateCondition"
                 THEN /\ conditionsDb' = StoreUpdate(conditionsDb, call.arg)
                      /\ UNCHANGED nextId
                 ELSE /\ conditionsDb' = StoreAdd(conditionsDb, call.arg)
                      /\ nextId' = nextId + 1
              /\ manual' = [manual EXCEPT !.pending = Answered(@, k),
                                          !.conditionModal = NoModal]
    /\ UNCHANGED <<runVars, propVars, laosDb, inspectionsDb, rejectsDuplicates,
                   clock, utilVars>>

\* Lines 1575-1578: "Excluir" in the row of a condition of the props,
\* confirmed;
\* confirmDeleteCondition runs up to the await of onDeleteCondition.
confirmDeleteCondition ==
    /\ manual.canEdit
    /\ NoOverlay
    /\ manual.operations < MaxOperations
    /\ Len(manual.pending) < MaxPending
    /\ \E k \in 1..Len(conditions) :
          /\ Found(RowLao(conditions[k]))
          /\ manual' = [manual EXCEPT
                        !.pending = Append(@, [op |-> "deleteCondition",
                                               arg |-> conditions[k].id]),
                        !.operations = @ + 1]
    /\ UNCHANGED <<runVars, propVars, storeVars, clock, utilVars>>

\* onDeleteCondition has returned.
DeletedConditionReturns ==
    /\ \E k \in 1..Len(manual.pending) :
          /\ manual.pending[k].op = "deleteCondition"
          /\ conditionsDb' = StoreDelete(conditionsDb, manual.pending[k].arg)
          /\ manual' = [manual EXCEPT !.pending = Answered(@, k)]
    /\ UNCHANGED <<runVars, propVars, laosDb, inspectionsDb, nextId,
                   rejectsDuplicates, clock, utilVars>>

\* Lines 1059-1066: createEmptyDetail.
createEmptyDetail(index, stamp) ==
    [id |-> <<"detail", stamp, index>>, key |-> "", value |-> "", order |-> index]

\* Lines 1290-1309: the license form after resetLaoForm.
EmptyLaoForm(stamp) ==
    [laoNumber |-> <<>>, title |-> <<>>, empreendimento |-> <<>>, branchId |-> 0,
     category |-> "Ambiental", processNumber |-> "", fcei |-> "", codam |-> "",
     issueDate |-> 0, validityDate |-> 0,
     details |-> <<createEmptyDetail(0, stamp)>>, attachments |-> <<>>,
     active |-> TRUE, createdAt |-> 0, updatedAt |-> 0]

\* Lines 1311-1314: "Nova LAO".
openCreateLao ==
    /\ manual.canEdit
    /\ NoOverlay
    /\ manual.operations < MaxOperations
    /\ manual' = [manual EXCEPT
                     !.laoModal = [editing |-> NoRecord, form |-> EmptyLaoForm(clock)],
                     !.operations = @ + 1]
    /\ UNCHANGED <<runVars, propVars, storeVars, clock, utilVars>>

\* Lines 1316-1328: "Editar" of a license of the props.
openEditLao ==
    /\ manual.canEdit
    /\ NoOverlay
    /\ manual.operations < MaxOperations
    /\ \E k \in 1..Len(laos) :
          manual' = [manual EXCEPT
              !.laoModal =
                  [editing |-> laos[k],
                   form |-> Spread(laos[k],
                       [branchId |-> laos[k].branchId,
                        details |-> IF Len(laos[k].details) > 0 THEN laos[k].details
                                    ELSE <<createEmptyDetail(0, clock)>>,
                        attachments |-> IF "attachments" \in DOMAIN laos[k]
                                        THEN laos[k].attachments ELSE <<>>])],
              !.operations = @ + 1]
    /\ UNCHANGED <<runVars, propVars, storeVars, clock, utilVars>>

\* Lines 1330-1342: a field of the license form is changed.
handleLaoFieldChange ==
    /\ manual.laoModal # NoModal
    /\ \E c \in 1..Len(LaoFieldChanges) :
          LET change == LaoFieldChanges[c]
          IN
          /\ manual.laoModal.form[change.name] # change.value
          /\ manual' = [manual EXCEPT
                           !.laoModal.form[change.name] = change.value]
    /\ UNCHANGED <<runVars, propVars, storeVars, clock, utilVars>>

\* Lines 2664-2668: Cancelar of the license modal.
CancelLao ==
    /\ manual.laoModal # NoModal
    /\ manual' = [manual EXCEPT !.laoModal = NoModal]
    /\ UNCHANGED <<runVars, propVars, storeVars, clock, utilVars>>

\* Lines 1343-1350: one of the two inputs of a detail row is changed.
updateDetail ==
    /\ manual.laoModal # NoModal
    /\ manual.operations < MaxOperations
    /\ LET details == manual.laoModal.form.details
       IN  \E index \in 0..Len(details) - 1, c \in 1..Len(DetailFieldChanges) :
              LET change == DetailFieldChanges[c]
              IN  /\ details[index + 1][change.field] # change.value
                  /\ manual' = [manual EXCEPT !.laoModal.form.details =
                         [idx \in 1..Len(details) |->
                             IF idx - 1 = index
                             THEN [details[idx] EXCEPT ![change.field] = change.value]
                             ELSE details[idx]],
                         !.operations = @ + 1]
    /\ UNCHANGED <<runVars, propVars, storeVars, clock, utilVars>>

\* Lines 1352-1357: "Adicionar detalhe".
addDetail ==
    /\ manual.laoModal # NoModal
    /\ manual.operations < MaxOperations
    /\ LET details == manual.laoModal.form.details
       IN  manual' = [manual EXCEPT
                         !.laoModal.form.details =
                             Append(details, createEmptyDetail(Len(details), clock)),
                         !.operations = @ + 1]
    /\ UNCHANGED <<runVars, propVars, storeVars, clock, utilVars>>

\* Lines 1359-1370: the row at index is removed and the others renumbered;
\* the last row is replaced by an empty one.
removeDetail ==
    /\ manual.laoModal # NoModal
    /\ manual.operations < MaxOperations
    /\ LET prev == manual.laoModal.form.details
       IN  \E index \in 0..Len(prev) - 1 :
              LET details == SubSeq(prev, 1, index)
                                 \o SubSeq(prev, index + 2, Len(prev))
              IN  manual' = [manual EXCEPT !.laoModal.form.details =
                      IF Len(details) > 0
                      THEN [idx \in 1..Len(details) |->
                               [details[idx] EXCEPT !.order = idx - 1]]
                      ELSE <<createEmptyDetail(0, clock)>>,
                      !.operations = @ + 1]
    /\ UNCHANGED <<runVars, propVars, storeVars, clock, utilVars>>

\* Lines 1372-1384: the row at index is moved up or down and the rows are
\* renumbered; at either end the form is returned as it is.
moveDetail ==
    /\ manual.laoModal # NoModal
    /\ manual.operations < MaxOperations
    /\ LET prev == manual.laoModal.form.details
       IN  \E index \in 0..Len(prev) - 1, direction \in {-1, 1} :
              LET target == index + direction
                  without == SubSeq(prev, 1, index)
                                 \o SubSeq(prev, index + 2, Len(prev))
                  cloned == SubSeq(without, 1, target)
                                \o <<prev[index + 1]>>
                                \o SubSeq(without, target + 1, Len(without))
              IN  /\ ~(target < 0 \/ target >= Len(prev))
                  /\ manual' = [manual EXCEPT !.laoModal.form.details =
                         [idx \in 1..Len(cloned) |->
                             [cloned[idx] EXCEPT !.order = idx - 1]],
                         !.operations = @ + 1]
    /\ UNCHANGED <<runVars, propVars, storeVars, clock, utilVars>>

\* Lines 1386-1396: a file is chosen in the license form (the input is
\* disabled while laoUploading, that is, while uploadBytes or
\* getDownloadURL has not answered); handleUploadAttachment runs up to the
\* await of uploadBytes, with the storagePath made of the license being
\* edited (or of the time, for a new one), the time and the file name.
handleUploadAttachment ==
    /\ manual.laoModal # NoModal
    /\ manual.operations < MaxOperations
    /\ \A k \in 1..Len(manual.pending) :
           manual.pending[k].op \notin {"uploadBytes", "getDownloadURL"}
    /\ Len(manual.pending) < MaxPending
    /\ \E file \in UploadedFiles :
          LET laoIdentity == IF Found(manual.laoModal.editing)
                             THEN <<"id", manual.laoModal.editing.id>>
                             ELSE <<"new", clock>>
              storagePath == <<"laos", laoIdentity, clock, file>>
          IN
          /\ \A k \in 1..Len(manual.laoModal.form.attachments) :
                 manual.laoModal.form.attachments[k].id # file
          /\ manual' = [manual EXCEPT
                 !.pending = Append(@, [op |-> "uploadBytes",
                                        arg |-> [id |-> file, fileName |-> file,
                                                 storagePath |-> storagePath]]),
                 !.operations = @ + 1]
    /\ UNCHANGED <<runVars, propVars, storeVars, clock, utilVars>>

\* Lines 1396-1397 and 1411-1416: uploadBytes has answered. When it threw
\* there is the alert and laoUploading ends; otherwise getDownloadURL is
\* called and awaited, the form being left as it is.
UploadBytesReturns ==
    /\ \E k \in 1..Len(manual.pending), thrown \in BOOLEAN :
          /\ manual.pending[k].op = "uploadBytes"
          /\ manual' =
                 IF thrown
                 THEN [manual EXCEPT !.pending = Answered(@, k)]
                 ELSE [manual EXCEPT !.pending[k].op = "getDownloadURL"]
    /\ UNCHANGED <<runVars, propVars, storeVars, clock, utilVars>>

\* Lines 1397-1416: getDownloadURL has answered. With an address the new
\* attachment is appended to the form as it is then (the form of a modal that
\* was closed meanwhile is reset again when a modal is opened); when it
\* threw there is the alert. Either way laoUploading ends.
AttachmentUploaded ==
    /\ \E k \in 1..Len(manual.pending), thrown \in BOOLEAN :
          /\ manual.pending[k].op = "getDownloadURL"
          /\ manual' =
                 IF thrown \/ manual.laoModal = NoModal
                 THEN [manual EXCEPT !.pending = Answered(@, k)]
                 ELSE [manual EXCEPT
                          !.pending = Answered(@, k),
                          !.laoModal.form.attachments =
                              Append(@, manual.pending[k].arg)]
    /\ UNCHANGED <<runVars, propVars, storeVars, clock, utilVars>>

\* Lines 1419-1431: "Remover" of an attachment of the form. With a
\* storagePath removeAttachmentFromForm runs up to the await of deleteObject;
\* without one nothing is awaited and the attachment is taken out of the
\* form at once.
removeAttachmentFromForm ==
    /\ manual.laoModal # NoModal
    /\ manual.operations < MaxOperations
    /\ \E k \in 1..Len(manual.laoModal.form.attachments) :
          LET attachment == manual.laoModal.form.attachments[k]
          IN  IF "storagePath" \in DOMAIN attachment /\ attachment.storagePath # <<>>
              THEN /\ Len(manual.pending) < MaxPending
                   /\ manual' = [manual EXCEPT
                          !.pending = Append(@, [op |-> "deleteObject",
                                                 arg |-> attachment]),
                          !.operations = @ + 1]
              ELSE manual' = [manual EXCEPT
                          !.laoModal.form.attachments =
                              SelectSeq(@, LAMBDA item : item.id # attachment.id),
                          !.operations = @ + 1]
    /\ UNCHANGED <<runVars, propVars, storeVars, clock, utilVars>>

\* Lines 1421-1430: deleteObject has returned or thrown (which is only
\* logged); the attachment is taken out of the form as it is then.
AttachmentRemoved ==
    /\ \E k \in 1..Len(manual.pending) :
          /\ manual.pending[k].op = "deleteObject"
          /\ manual' =
                 IF manual.laoModal = NoModal
                 THEN [manual EXCEPT !.pending = Answered(@, k)]
                 ELSE [manual EXCEPT
                          !.pending = Answered(@, k),
                          !.laoModal.form.attachments =
                              SelectSeq(@, LAMBDA item :
                                               item.id # manual.pending[k].arg.id)]
    /\ UNCHANGED <<runVars, propVars, storeVars, clock, utilVars>>

\* Lines 1443-1449: sanitizedDetails (the keys and values of this model
\* have no white space to trim).
SanitizedDetails(details, stamp) ==
    LET kept == SelectSeq(details, LAMBDA detail : detail.key # "" /\ detail.value # "")
    IN  [k \in 1..Len(kept) |->
            Spread(kept[k],
                   [id |-> IF kept[k].id # "" THEN kept[k].id
                           ELSE <<"detail", stamp, k - 1>>,
                    order |-> k - 1])]

\* Lines 1451-1469: what saveLao hands to onUpdateLao or onAddLao.
SavedLao(editingLao, laoForm, stamp) ==
    LET fields ==
            [branchId |-> laoForm.branchId,
             details |-> SanitizedDetails(laoForm.details, stamp),
             attachments |-> laoForm.attachments,
             updatedAt |-> stamp]
    IN  IF Found(editingLao)
        THEN Spread(Spread(editingLao, laoForm), fields)
        ELSE Spread(Spread(laoForm, fields), [createdAt |-> stamp])

\* Lines 1433-1469: "Salvar LAO". Without a number, a site or a validity
\* date saveLao returns after the alert; else it runs up to the await of
\* onUpdateLao or onAddLao.
saveLao ==
    /\ manual.laoModal # NoModal
    /\ Len(manual.pending) < MaxPending
    /\ LET laoForm == manual.laoModal.form
           editingLao == manual.laoModal.editing
       IN  /\ Trim(laoForm.laoNumber) # <<>>
           /\ Trim(laoForm.empreendimento) # <<>>
           /\ laoForm.validityDate # 0
           /\ manual' = [manual EXCEPT
                  !.pending = Append(@,
                      [op |-> IF Found(editingLao) THEN "updateLao" ELSE "addLao",
                       arg |-> SavedLao(editingLao, laoForm, clock)])]
    /\ UNCHANGED <<runVars, propVars, storeVars, clock, utilVars>>

\* Lines 1452-1471: onUpdateLao or onAddLao has returned; the license modal
\* is closed and its form reset.
SavedLaoReturns ==
    /\ \E k \in 1..Len(manual.pending) :
          LET call == manual.pending[k]
          IN  /\ call.op \in {"updateLao", "addLao"}
              /\ IF call.op = "updateLao"
                 THEN /\ laosDb' = StoreUpdate(laosDb, call.arg)
                      /\ UNCHANGED nextId
                 ELSE /\ laosDb' = StoreAdd(laosDb, call.arg)
                      /\ nextId' = nextId + 1
              /\ manual' = [manual EXCEPT !.pending = Answered(@, k),
                                          !.laoModal = NoModal]
    /\ UNCHANGED <<runVars, propVars, conditionsDb, inspectionsDb,
                   rejectsDuplicates, clock, utilVars>>

\* Lines 1474-1477: "Excluir" of a license of the props, confirmed;
\* confirmDeleteLao runs up to the await of onDeleteLao.
confirmDeleteLao ==
    /\ manual.canEdit
    /\ NoOverlay
    /\ manual.operations < MaxOperations
    /\ Len(manual.pending) < MaxPending
    /\ \E k \in 1..Len(laos) :
          manual' = [manual EXCEPT
                        !.pending = Append(@, [op |-> "deleteLao",
                                               arg |-> laos[k].id]),
                        !.operations = @ + 1]
    /\ UNCHANGED <<runVars, propVars, storeVars, clock, utilVars>>

\* onDeleteLao has returned: the store has dropped the license, and with it
\* its conditions or not.
DeletedLaoReturns ==
    /\ \E k \in 1..Len(manual.pending) :
          /\ manual.pending[k].op = "deleteLao"
          /\ laosDb' = StoreDelete(laosDb, manual.pending[k].arg)
          /\ conditionsDb' \in
                {conditionsDb,
                 SelectSeq(conditionsDb,
                     LAMBDA record : record.laoId # manual.pending[k].arg)}
          /\ manual' = [manual EXCEPT !.pending = Answered(@, k)]
    /\ UNCHANGED <<runVars, propVars, inspectionsDb, nextId,
                   rejectsDuplicates, clock, utilVars>>

\* The screen is rendered again with the store's records as props. The
\* shadow copies of an import, the props of the closure of a file that is
\* being read, the draft of the dialog and the forms keep what they were
\* made from.
RenderScreen ==
    /\ ~Rendered
    /\ laos' = laosDb
    /\ conditions' = conditionsDb
    /\ inspections' = inspectionsDb
    /\ UNCHANGED <<branches, runVars, manual, storeVars, clock, utilVars>>

\* The steps of a file that was chosen.
ImportSteps ==
    \/ FileIsRead
    \/ FileReadFails
    \/ BeginItem
    \/ LaoWriteReturns
    \/ BeginCondition
    \/ EndConditions
    \/ ConditionWriteReturns
    \/ BeginInspection
    \/ EndInspections
    \/ InspectionReturns
    \/ ImportReturns

\* Imports and inspection dialogs.
NextManual ==
    \/ OpenImportModal
    \/ CloseImportModal
    \/ handleChangeFile
    \/ ImportSteps
    \/ ChangeSelectedYear
    \/ openInspectionEditor
    \/ ChangeInspectionDate
    \/ CancelInspection
    \/ saveInspection
    \/ SavedInspectionReturns
    \/ LastInspectionWritten
    \/ RenderScreen

SpecManual == InitManual /\ [][NextManual]_vars

\* The stored license with two detail rows and a second attachment, which
\* has no storagePath.
DetailedLao ==
    [StoredLao EXCEPT
        !.details =
            <<[id |-> <<"detail", 1, 0>>, key |-> "k", value |-> "v", order |-> 0],
              [id |-> <<"detail", 1, 1>>, key |-> "p", value |-> "", order |-> 1]>>,
        !.attachments = Append(@, [id |-> "c.pdf", fileName |-> "c.pdf"])]

\* The screen of an editor over the store of one license with one condition.
InitEdits ==
    InitScreen({[laos |-> <<DetailedLao>>, conditions |-> <<ActiveCondition>>,
                 inspections |-> <<StoredInspection>>, nextId |-> 5]},
               {FALSE}, {TRUE})

\* Imports, and licenses and conditions edited and deleted by hand.
NextEdits ==
    \/ OpenImportModal
    \/ CloseImportModal
    \/ handleChangeFile
    \/ ImportSteps
    \/ openCreateCondition
    \/ openEditCondition
    \/ handleConditionFieldChange
    \/ CancelCondition
    \/ saveCondition
    \/ SavedConditionReturns
    \/ confirmDeleteCondition
    \/ DeletedConditionReturns
    \/ openCreateLao
    \/ openEditLao
    \/ handleLaoFieldChange
    \/ updateDetail
    \/ addDetail
    \/ removeDetail
    \/ moveDetail
    \/ handleUploadAttachment
    \/ UploadBytesReturns
    \/ AttachmentUploaded
    \/ removeAttachmentFromForm
    \/ AttachmentRemoved
    \/ CancelLao
    \/ saveLao
    \/ SavedLaoReturns
    \/ confirmDeleteLao
    \/ DeletedLaoReturns
    \/ RenderScreen

SpecEdits == InitEdits /\ [][NextEdits]_vars

\* The inspections the store holds for a condition.
StoredInspectionsOf(condition) ==
    {inspectionsDb[k].inspectionDate :
        k \in {j \in 1..Len(inspectionsDb) :
                   inspectionsDb[j].conditionId = condition.id}}

\* lastInspectionDate is there and is no earlier than any stored inspection.
LastDominates(condition) ==
    \A inspectionDate \in StoredInspectionsOf(condition) :
        /\ condition.lastInspectionDate # 0
        /\ condition.lastInspectionDate >= inspectionDate

\* No operation is under way, and each was begun on a screen that showed
\* the store's records.
AfterImportsAndInspections ==
    /\ ~UnderWay
    /\ ~manual.stale

\* C28 as stated: after any imports and manual saveInspection operations,
\* each begun on a screen that shows the store's records and with no record
\* edited or deleted by hand, every stored condition with an inspection has
\* a lastInspectionDate that is no earlier than any of its stored
\* inspections; and a saveInspection whose onAddInspection returns null for
\* a duplicate changes neither the inspections nor the conditions.
C28_LastInspectionDominates ==
    /\ [](AfterImportsAndInspections =>
             \A k \in 1..Len(conditionsDb) : LastDominates(conditionsDb[k]))
    /\ [][(/\ manual.saving.pc = "adding"
           /\ manual'.saving # manual.saving
           /\ StoreRejectsInspection(manual.saving.arg)) =>
             /\ inspectionsDb' = inspectionsDb
             /\ conditionsDb' = conditionsDb]_vars

\* C28, for imports and manual saveInspection operations that do not
\* overlap: when every file was chosen and every dialog opened on a screen
\* that showed the store's records and while no file was being read or
\* imported and no saveInspection was waiting, every stored condition with
\* an inspection has a lastInspectionDate that is no earlier than any of its
\* stored inspections; and a saveInspection whose onAddInspection returns
\* null for a duplicate changes neither the inspections nor the conditions
\* and leaves the dialog open.
C28_DominatesWithoutOverlap ==
    /\ [](AfterImportsAndInspections /\ ~manual.overlapped =>
             \A k \in 1..Len(conditionsDb) : LastDominates(conditionsDb[k]))
    /\ [][(/\ manual.saving.pc = "adding"
           /\ manual'.saving # manual.saving
           /\ StoreRejectsInspection(manual.saving.arg)) =>
             /\ inspectionsDb' = inspectionsDb
             /\ conditionsDb' = conditionsDb
             /\ manual'.inspectionDraft = manual.inspectionDraft]_vars

\* An import has ended and, after it and a rendering, a dialog was opened
\* whose first save was rejected as a duplicate and whose second save added
\* an inspection later than the imported one and advanced lastInspectionDate
\* to it: a condition has inspections of both sources, and nothing
\* overlapped.
C28_Witness ==
    /\ AfterImportsAndInspections
    /\ ~manual.overlapped
    /\ runNo = 1
    /\ pc = "done"
    /\ manual.rejected
    /\ manual.inspectionDraft = NoDraft
    /\ \E k \in 1..Len(conditionsDb) :
          /\ \E i, j \in 1..Len(inspectionsDb) :
                /\ inspectionsDb[i].conditionId = conditionsDb[k].id
                /\ inspectionsDb[j].conditionId = conditionsDb[k].id
                /\ inspectionsDb[i].source = "import"
                /\ inspectionsDb[j].source = "manual"
                /\ inspectionsDb[j].createdAt > 1
                /\ inspectionsDb[i].inspectionDate < inspectionsDb[j].inspectionDate
                /\ inspectionsDb[j].inspectionDate = conditionsDb[k].lastInspectionDate

(***************************************************************************)
(* Properties of the records an import updates                             *)
(***************************************************************************)

\* The record of identifier id in a list of the store.
StoredWithId(db, id) == db[CHOOSE k \in 1..Len(db) : db[k].id = id]

\* The license of the props that the item in hand matches by import key.
MatchedLao ==
    FindLaoByKey(currentLaos, getImportKey(Item.laoNumber, Item.empreendimento))

\* Stores that hold a license and a condition with values an import does not
\* write: the license inactive, of category SGA, without branch where its
\* site matches the branch "Se" and with the branch 9, assigned by hand,
\* where its site matches none; the condition inactive, with notes.
InitOverwrite ==
    /\ branches = BranchList
    /\ \E stored \in {StoredLao, StoredLaoT} :
          /\ laosDb = <<stored>>
          /\ laos = <<stored>>
    /\ conditionsDb = <<StoredCondition>>
    /\ conditions = <<StoredCondition>>
    /\ inspectionsDb = <<StoredInspection>>
    /\ inspections = <<StoredInspection>>
    /\ nextId = 5
    /\ rejectsDuplicates = FALSE
    /\ clock = 2
    /\ parsedItems \in ItemListPool
    /\ pc = "idle"
    /\ summary = EmptySummary
    /\ currentLaos = <<>>
    /\ currentConditions = <<>>
    /\ currentInspections = <<>>
    /\ itemIndex = 0
    /\ now = 0
    /\ lao = NoRecord
    /\ condIndex = 0
    /\ conditionId = 0
    /\ sortedInspectionDates = <<>>
    /\ dateIndex = 0
    /\ calls = <<>>
    /\ runNo = 0
    /\ faults = 0
    /\ other = NoOtherRun
    /\ manual = Unused
    /\ UtilitiesUnused

\* executeImport with collaborators that succeed, and a second run on the
\* re-rendered screen.
NextOverwrite ==
    \/ StartImport
    \/ BeginItem
    \/ LaoWriteReturns
    \/ BeginCondition
    \/ EndConditions
    \/ ConditionWriteReturns
    \/ BeginInspection
    \/ EndInspections
    \/ InspectionReturns
    \/ ReturnSummary
    \/ RefreshSnapshot

SpecOverwrite == InitOverwrite /\ [][NextOverwrite]_vars

\* C29. When executeImport updates a license it matched by import key, the
\* stored record afterwards is active, of category Ambiental, and has the
\* branch auto-matched from the item's empreendimento (null when there is
\* none), whatever these fields were before; and a condition it updates is
\* active afterwards and has the parsed notes ('' when there are none).
C29_UpdateOverwrites ==
    /\ [][pc = "laoCall" /\ pc' # pc /\ PendingCall.op = "updateLao" =>
             LET stored == StoredWithId(laosDb', MatchedLao.id)
             IN  /\ Found(MatchedLao)
                 /\ stored.active = TRUE
                 /\ stored.category = "Ambiental"
                 /\ stored.branchId = findMatchingBranch(Item.empreendimento)]_vars
    /\ [][pc = "condCall" /\ pc' # pc /\ PendingCall.op = "updateCondition" =>
             LET stored == StoredWithId(conditionsDb', MatchedCondition.id)
             IN  /\ Found(MatchedCondition)
                 /\ stored.active = TRUE
                 /\ stored.notes = ParsedCond.notes]_vars

\* The stored license was inactive, of category SGA and of a branch assigned
\* by hand, its condition inactive and with notes (the props still show
\* them); the import has made the license active, Ambiental and without
\* branch, the condition active and without notes.
C29_Witness ==
    /\ pc = "insp"
    /\ Len(laos) = 1 /\ Len(laosDb) = 1 /\ Len(conditionsDb) = 1
    /\ ~laos[1].active /\ laos[1].category = "SGA" /\ laos[1].branchId = 9
    /\ laosDb[1].active /\ laosDb[1].category = "Ambiental"
    /\ laosDb[1].branchId = 0
    /\ laosDb[1].id = laos[1].id
    /\ ~conditions[1].active /\ conditions[1].notes = "n"
    /\ conditionsDb[1].active /\ conditionsDb[1].notes = ""
    /\ conditionsDb[1].id = conditions[1].id

(***************************************************************************)
(* Properties of the days of the projected candidates                      *)
(***************************************************************************)

\* The loop of a call is at a candidate.
AtCandidate(state) == state.pc = "loop"

\* C30. Along the candidates projectInspectionDatesForYear steps through,
\* the day of the month never increases: the first candidate has at most the
\* day of the anchor, every candidate at most the day of the one before it,
\* so that after a candidate was clamped to the end of a shorter month every
\* later one stays at or below that day (and can differ from
\* addMonthsPreserveDay(anchor, k * intervalMonths)).
C30_DayOfMonthNeverIncreases ==
    /\ [](AtCandidate(projection) =>
             getDate(projection.cursor)
                 <= getDate(parseISODate(projection.anchorDateISO)))
    /\ [][AtCandidate(projection) /\ AtCandidate(projection') =>
             getDate(projection'.cursor) <= getDate(projection.cursor)]_vars

\* Anchor 2024-01-31 with one month: the first candidate was clamped to
\* 29 February, the second is 29 March, where adding two months to the
\* anchor at once gives 31 March.
C30_Witness ==
    /\ AtCandidate(projection)
    /\ projection.anchorDateISO = <<"2", "0", "2", "4", "-", "0", "1", "-", "3", "1">>
    /\ projection.intervalMonths = Months(1)
    /\ projection.iterations = 1
    /\ toISODate(projection.cursor) = <<"2", "0", "2", "4", "-", "0", "3", "-", "2", "9">>
    /\ toISODate(addMonthsPreserveDay(parseISODate(projection.anchorDateISO), Months(2)))
           = <<"2", "0", "2", "4", "-", "0", "3", "-", "3", "1">>

====
